---- MODULE Spec2Model ----
(***************************************************************************)
(* A model of the type-keyed registry of github.com/mp3cko/registry:       *)
(* registries with a persistent config, a store of type -> name -> value   *)
(* and per-call options, the option engine that sorts and applies options, *)
(* and the operations NewRegistry, Set, Get, GetAll, Unset and             *)
(* SetDefaultRegistry.  Go maps are reference objects, so the maps of a    *)
(* store live in two heaps (outer type maps, inner name maps) and a value  *)
(* of map type is a reference into them.                                   *)
(***************************************************************************)
EXTENDS Integers, Sequences, FiniteSets, TLC

\* Bounds of the exploration.
MaxRegs == 3
MaxOps == 3
MaxThreads == 2
MaxCalls == 4

\* ------------------------------------------------------------------------
\* access.Accessibility and access.Namedness
AccessibilityUndefined == 0
NotAccessible == 1
AccessibleInsidePackage == 2
AccessibleEverywhere == 3

NamednessUndefined == 0
AnonymousType == 1
NamedType == 2

\* Stand-ins for math.MaxInt and math.MinInt: only the order of the
\* priorities derived from them is used.
MathMaxInt == 1000
MathMinInt == -1000

priorityUndefined == 0
priorityHighest == MathMaxInt - 1
prioritySecondHighest == MathMaxInt - 2
priorityThirdHighest == MathMaxInt - 3
priorityLowest == MathMinInt + 4
prioritySecondLowest == MathMinInt + 5
priorityThirdLowest == MathMinInt + 6

\* The default instance name ("Default name is an empty string").
DefaultName == ""

\* The package that declares Set, Get, GetAll and Unset.
RegPkg == "github.com/mp3cko/registry"

\* ------------------------------------------------------------------------
\* The types, names and values the operations are called with.
Types == {"ExportedNamedTester", "unexportedType", "interface{ M() }"}
Names == {"", "b"}
Values == {1, 2}

\* Another package than package reg, and the package of a main program.
OtherPkg == "example.com/other"
MainPkg == "main"

\* reflect.Type facts of the model's types: declared name, declaring
\* package, whether the name starts with an upper-case rune, the kind
\* (only "Ptr" is told apart by the code before it looks at the name), and
\* the types it is built from, in the order the code visits them: the
\* element of a pointer, slice, array or channel, the key and the element
\* of a map, the parameters and results of a function, the fields of a
\* struct, the method signatures of an interface.
TypeDescs ==
    {[id |-> "ExportedNamedTester", name |-> "ExportedNamedTester", pkgPath |-> RegPkg, upper |-> TRUE,
      kind |-> "Struct", elems |-> <<"int">>],
     [id |-> "interface{ M() }", name |-> "", pkgPath |-> "", upper |-> FALSE,
      kind |-> "Interface", elems |-> <<>>],
     [id |-> "unexportedType", name |-> "unexportedType", pkgPath |-> RegPkg, upper |-> FALSE,
      kind |-> "Struct", elems |-> <<>>],
     [id |-> "reflect.Type", name |-> "Type", pkgPath |-> "reflect", upper |-> TRUE,
      kind |-> "Interface", elems |-> <<>>],
     [id |-> "int", name |-> "int", pkgPath |-> "", upper |-> FALSE,
      kind |-> "Int", elems |-> <<>>],
     [id |-> "other.hidden", name |-> "hidden", pkgPath |-> OtherPkg, upper |-> FALSE,
      kind |-> "Struct", elems |-> <<>>],
     [id |-> "other.Public", name |-> "Public", pkgPath |-> OtherPkg, upper |-> TRUE,
      kind |-> "Struct", elems |-> <<"other.hidden">>],
     [id |-> "*unexportedType", name |-> "", pkgPath |-> "", upper |-> FALSE,
      kind |-> "Ptr", elems |-> <<"unexportedType">>],
     [id |-> "**ExportedNamedTester", name |-> "", pkgPath |-> "", upper |-> FALSE,
      kind |-> "Ptr", elems |-> <<"*ExportedNamedTester">>],
     [id |-> "*ExportedNamedTester", name |-> "", pkgPath |-> "", upper |-> FALSE,
      kind |-> "Ptr", elems |-> <<"ExportedNamedTester">>],
     [id |-> "[]other.hidden", name |-> "", pkgPath |-> "", upper |-> FALSE,
      kind |-> "Slice", elems |-> <<"other.hidden">>],
     [id |-> "[4]int", name |-> "", pkgPath |-> "", upper |-> FALSE,
      kind |-> "Array", elems |-> <<"int">>],
     [id |-> "chan other.Public", name |-> "", pkgPath |-> "", upper |-> FALSE,
      kind |-> "Chan", elems |-> <<"other.Public">>],
     [id |-> "map[int]unexportedType", name |-> "", pkgPath |-> "", upper |-> FALSE,
      kind |-> "Map", elems |-> <<"int", "unexportedType">>],
     [id |-> "map[other.hidden]unexportedType", name |-> "", pkgPath |-> "", upper |-> FALSE,
      kind |-> "Map", elems |-> <<"other.hidden", "unexportedType">>],
     [id |-> "func(int) other.Public", name |-> "", pkgPath |-> "", upper |-> FALSE,
      kind |-> "Func", elems |-> <<"int", "other.Public">>],
     [id |-> "func(unexportedType)", name |-> "", pkgPath |-> "", upper |-> FALSE,
      kind |-> "Func", elems |-> <<"unexportedType">>],
     [id |-> "interface{ M(unexportedType) }", name |-> "", pkgPath |-> "", upper |-> FALSE,
      kind |-> "Interface", elems |-> <<"func(unexportedType)">>],
     [id |-> "struct{ a int; b other.hidden }", name |-> "", pkgPath |-> "", upper |-> FALSE,
      kind |-> "Struct", elems |-> <<"int", "other.hidden">>],
     [id |-> "struct{ a unexportedType; b []other.hidden }", name |-> "", pkgPath |-> "", upper |-> FALSE,
      kind |-> "Struct", elems |-> <<"unexportedType", "[]other.hidden">>],
     \* type Node struct{ next *Node }, type node struct{ next *node }
     [id |-> "Node", name |-> "Node", pkgPath |-> RegPkg, upper |-> TRUE,
      kind |-> "Struct", elems |-> <<"*Node">>],
     [id |-> "*Node", name |-> "", pkgPath |-> "", upper |-> FALSE,
      kind |-> "Ptr", elems |-> <<"Node">>],
     [id |-> "node", name |-> "node", pkgPath |-> RegPkg, upper |-> FALSE,
      kind |-> "Struct", elems |-> <<"*node">>],
     [id |-> "*node", name |-> "", pkgPath |-> "", upper |-> FALSE,
      kind |-> "Ptr", elems |-> <<"node">>],
     [id |-> "struct{ n *node; m map[int]*Node }", name |-> "", pkgPath |-> "", upper |-> FALSE,
      kind |-> "Struct", elems |-> <<"*node", "map[int]*Node">>],
     [id |-> "map[int]*Node", name |-> "", pkgPath |-> "", upper |-> FALSE,
      kind |-> "Map", elems |-> <<"int", "*Node">>],
     \* type hiddenPtr *ExportedNamedTester, type PublicPtr *unexportedType
     [id |-> "other.hiddenPtr", name |-> "hiddenPtr", pkgPath |-> OtherPkg, upper |-> FALSE,
      kind |-> "Ptr", elems |-> <<"ExportedNamedTester">>],
     [id |-> "PublicPtr", name |-> "PublicPtr", pkgPath |-> RegPkg, upper |-> TRUE,
      kind |-> "Ptr", elems |-> <<"unexportedType">>],
     [id |-> "[]other.hiddenPtr", name |-> "", pkgPath |-> "", upper |-> FALSE,
      kind |-> "Slice", elems |-> <<"other.hiddenPtr">>],
     \* type P *P
     [id |-> "other.P", name |-> "P", pkgPath |-> OtherPkg, upper |-> TRUE,
      kind |-> "Ptr", elems |-> <<"other.P">>],
     [id |-> "[]other.P", name |-> "", pkgPath |-> "", upper |-> FALSE,
      kind |-> "Slice", elems |-> <<"other.P">>],
     [id |-> "struct{ h other.hidden; p other.P }", name |-> "", pkgPath |-> "", upper |-> FALSE,
      kind |-> "Struct", elems |-> <<"other.hidden", "other.P">>]}

\* The reflect.Type of id T among the types D; a type that is not among
\* them has no name and is built from nothing.
TypeDesc(D, T) ==
    IF \E d \in D : d.id = T
    THEN CHOOSE d \in D : d.id = T
    ELSE [id |-> T, name |-> "", pkgPath |-> "", upper |-> FALSE, kind |-> "Invalid",
          elems |-> <<>>]

isExported(d) == d.name # "" /\ d.upper

\* for rt.Kind() == reflect.Ptr { rt = rt.Elem() }: the type the loop ends
\* on.  The loop has no other exit: when the pointers lead back to a type it
\* has been at, it does not end.
NeverEnds == "for rt.Kind() == reflect.Ptr"

RECURSIVE stripPtr(_, _, _)
stripPtr(D, T, visited) ==
    LET d == TypeDesc(D, T) IN
    IF d.kind # "Ptr" THEN T
    ELSE IF T \in visited THEN NeverEnds
    ELSE stripPtr(D, d.elems[1], visited \cup {T})

\* getNamedness: NamednessUndefined stands for no return.
getNamedness(D, T) ==
    LET rt == stripPtr(D, T, {}) IN
    IF rt = NeverEnds THEN NamednessUndefined
    ELSE IF TypeDesc(D, rt).name # "" THEN NamedType ELSE AnonymousType

RECURSIVE accessibleEverywhere(_, _, _)
accessibleEverywhere(D, T, seen) ==
    IF T \in seen THEN TRUE
    ELSE LET d == TypeDesc(D, stripPtr(D, T, {})) IN
         IF d.name # ""
         THEN IF d.pkgPath = "" THEN TRUE ELSE isExported(d)
         ELSE \A i \in 1..Len(d.elems) : accessibleEverywhere(D, d.elems[i], seen \cup {T})

\* accessibleEverywhere does not return: it comes to a pointer loop that
\* does not end, the types it visits before having answered true.
RECURSIVE accessibleEverywhereHangs(_, _, _)
accessibleEverywhereHangs(D, T, seen) ==
    IF T \in seen THEN FALSE
    ELSE LET rt == stripPtr(D, T, {})
             d == TypeDesc(D, rt)
         IN IF rt = NeverEnds THEN TRUE
            ELSE IF d.name # "" THEN FALSE
            ELSE \E i \in 1..Len(d.elems) :
                   /\ accessibleEverywhereHangs(D, d.elems[i], seen \cup {T})
                   /\ \A j \in 1..(i - 1) :
                         /\ ~accessibleEverywhereHangs(D, d.elems[j], seen \cup {T})
                         /\ accessibleEverywhere(D, d.elems[j], seen \cup {T})

RECURSIVE accessibleFromPackage(_, _, _, _)
accessibleFromPackage(D, T, pkgPath, seen) ==
    IF T \in seen THEN TRUE
    ELSE LET d == TypeDesc(D, stripPtr(D, T, {})) IN
         IF d.name # ""
         THEN IF d.pkgPath = "" THEN TRUE
              ELSE IF isExported(d) THEN TRUE
              ELSE d.pkgPath = pkgPath
         ELSE \A i \in 1..Len(d.elems) :
                 accessibleFromPackage(D, d.elems[i], pkgPath, seen \cup {T})

RECURSIVE accessibleFromPackageHangs(_, _, _, _)
accessibleFromPackageHangs(D, T, pkgPath, seen) ==
    IF T \in seen THEN FALSE
    ELSE LET rt == stripPtr(D, T, {})
             d == TypeDesc(D, rt)
         IN IF rt = NeverEnds THEN TRUE
            ELSE IF d.name # "" THEN FALSE
            ELSE \E i \in 1..Len(d.elems) :
                   /\ accessibleFromPackageHangs(D, d.elems[i], pkgPath, seen \cup {T})
                   /\ \A j \in 1..(i - 1) :
                         /\ ~accessibleFromPackageHangs(D, d.elems[j], pkgPath, seen \cup {T})
                         /\ accessibleFromPackage(D, d.elems[j], pkgPath, seen \cup {T})

\* The body of getAccessability for caller package callerPkg.
accessibilityFrom(D, T, callerPkg) ==
    IF accessibleEverywhere(D, T, {}) THEN AccessibleEverywhere
    ELSE IF accessibleFromPackage(D, T, callerPkg, {}) THEN AccessibleInsidePackage
    ELSE NotAccessible

\* getAccessability does not return for caller package callerPkg.
accessibilityHangs(D, T, callerPkg) ==
    \/ accessibleEverywhereHangs(D, T, {})
    \/ ~accessibleEverywhere(D, T, {}) /\ accessibleFromPackageHangs(D, T, callerPkg, {})

\* getAccessability takes the caller package from the frame three levels up
\* from getCallerFuncName: getAccessability, Info, and then the function of
\* package reg that called Info.
getAccessability(D, T) == accessibilityFrom(D, T, RegPkg)

\* Info among the types D, called from package reg.
InfoOf(D, T) == <<getNamedness(D, T), getAccessability(D, T)>>

\* access.Info: <<namedness, accessibility>> of the static type T.
Info(T) == InfoOf(TypeDescs, T)

\* ------------------------------------------------------------------------
\* Small helpers.
valueOrDefault(val, zero, def) == IF val = zero THEN def ELSE val

\* max as it would be if it were min.
MaxAsMin(a, b) == IF a >= b THEN b ELSE a

Max(a, b) == IF a >= b THEN a ELSE b

EmptyMap == [x \in {} |-> 0]
MapPut(f, k, v) == [x \in (DOMAIN f) \cup {k} |-> IF x = k THEN v ELSE f[x]]
MapDel(f, k) == [x \in (DOMAIN f) \ {k} |-> f[x]]

\* ------------------------------------------------------------------------
\* registryConfig, initOpts and callOptions.
ZeroInit ==
    [complete |-> FALSE, uniqueTypesSet |-> FALSE, uniqueNamesSet |-> FALSE,
     accessibilitySet |-> FALSE, namednessSet |-> FALSE]

\* The config NewRegistry starts from.
NewConfig ==
    [init |-> ZeroInit, defaultName |-> "", uniqueTypes |-> FALSE,
     uniqueNames |-> FALSE, accessibility |-> AccessibleInsidePackage,
     namedness |-> NamednessUndefined]

\* A nil *registry.
NilReg == 0

\* new(callOptions); present = FALSE stands for a nil *callOptions.
ZeroCallOpts ==
    [present |-> TRUE, name |-> "", uniqueName |-> FALSE, uniqueType |-> FALSE,
     withRegistry |-> NilReg, accessibility |-> AccessibilityUndefined,
     namedness |-> NamednessUndefined]

NilCallOpts == [ZeroCallOpts EXCEPT !.present = FALSE]

withoutRegistry(co) == [co EXCEPT !.withRegistry = NilReg]

\* ------------------------------------------------------------------------
\* Options.  An option is its constructor and argument; its priority and its
\* effect are Priority and ApplyOption below.
Opt(k, r, n, l) == [kind |-> k, reg |-> r, name |-> n, level |-> l]

WithRegistry(r) == Opt("WithRegistry", r, "", 0)
WithUniqueType == Opt("WithUniqueType", NilReg, "", 0)
WithUniqueName == Opt("WithUniqueName", NilReg, "", 0)
WithName(n) == Opt("WithName", NilReg, n, 0)
WithNamedness(l) == Opt("WithNamedness", NilReg, "", l)
WithAccessibility(l) == Opt("WithAccessibility", NilReg, "", l)
WithCloneEntries(src) == Opt("WithCloneEntries", src, "", 0)
WithCloneConfig(src) == Opt("WithCloneConfig", src, "", 0)
WithCloneRegistry(src) == Opt("WithCloneRegistry", src, "", 0)

\* The priority each option constructor gives its option.
\* Priority as it would be if no option had a priority of its own.
PriorityAsSupplied(o) == priorityUndefined

\* Priority as it would be with the priorities of WithCloneEntries and
\* WithCloneConfig exchanged.
PriorityEntriesFirst(o) ==
    CASE o.kind = "WithRegistry" -> priorityHighest
      [] o.kind \in {"WithNamedness", "WithAccessibility"} -> prioritySecondHighest
      [] o.kind = "WithCloneEntries" -> priorityThirdLowest
      [] o.kind = "WithCloneConfig" -> prioritySecondLowest
      [] o.kind = "WithCloneRegistry" -> priorityLowest
      [] OTHER -> priorityUndefined

Priority(o) ==
    CASE o.kind = "WithRegistry" -> priorityHighest
      [] o.kind \in {"WithNamedness", "WithAccessibility"} -> prioritySecondHighest
      [] o.kind = "WithCloneEntries" -> prioritySecondLowest
      [] o.kind = "WithCloneConfig" -> priorityThirdLowest
      [] o.kind = "WithCloneRegistry" -> priorityLowest
      [] OTHER -> priorityUndefined

\* optionSorter as it would be if it put the lower priority first.
optionSorterAscending(a, b) ==
    IF Priority(a) < Priority(b) THEN -1
    ELSE IF Priority(a) > Priority(b) THEN 1
    ELSE 0

optionSorter(a, b) ==
    IF Priority(a) > Priority(b) THEN -1
    ELSE IF Priority(a) < Priority(b) THEN 1
    ELSE 0

\* slices.SortStableFunc(opts, optionSorter): a stable insertion sort.
RECURSIVE SortStable(_)
SortStable(s) ==
    IF Len(s) <= 1 THEN s
    ELSE LET x == s[Len(s)]
             front == SortStable(SubSeq(s, 1, Len(s) - 1))
             keep == {i \in 1..Len(front) : optionSorter(front[i], x) <= 0}
             k == Cardinality(keep)
         IN SubSeq(front, 1, k) \o <<x>> \o SubSeq(front, k + 1, Len(front))

\* ------------------------------------------------------------------------
\* The world: every registry's fields and the two map heaps.
\*   store[r]        the outer map of registry r: type -> reference to an
\*                   inner map (r absent from the domain: a nil map)
\*   inner[ref]      an inner map: name -> boxed value
\*   config[r], callOptions[r]
\* StubReg is the throwaway registry of getAll; the map allocated for it is
\* the one handed to the caller.
StubReg == -1

\* any(val) of a value of static type T, and the assertion val.(T).
Box(T, v) == [dyn |-> T, v |-> v]
Panic == -1
TypeAssert(b, T) == IF b.dyn = T THEN b.v ELSE Panic

\* make(map[string]any) for key T of registry r.
NewInner(r, T) == <<r, T>>

\* Inner maps no outer map refers to are garbage.
Live(W) == UNION {{W.store[o][T] : T \in DOMAIN W.store[o]} : o \in DOMAIN W.store}

Collect(W) == [W EXCEPT !.inner = [id \in (DOMAIN W.inner) \cap Live(W) |-> W.inner[id]]]

Instances(W, r, T) == W.inner[W.store[r][T]]

ensureCallOpts(W, r) ==
    IF W.callOptions[r].present THEN W
    ELSE [W EXCEPT !.callOptions[r] = ZeroCallOpts]

dropCallOpts(W, r) == [W EXCEPT !.callOptions[r] = NilCallOpts]

clone(cfg) == cfg

Out(W, e) == [w |-> W, err |-> e]

checkBadOpt(W, src, dest) ==
    LET s == W.config[src]
        d == W.config[dest]
    IN IF d.init.uniqueTypesSet /\ s.init.uniqueTypesSet /\ d.uniqueTypes # s.uniqueTypes
       THEN "ErrBadOption"
       ELSE IF d.init.uniqueNamesSet /\ s.init.uniqueNamesSet /\ d.uniqueNames # s.uniqueNames
       THEN "ErrBadOption"
       ELSE IF d.accessibility # AccessibilityUndefined /\ s.accessibility # AccessibilityUndefined
               /\ d.accessibility # s.accessibility
       THEN "ErrBadOption"
       ELSE IF d.namedness # NamednessUndefined /\ s.namedness # NamednessUndefined
               /\ d.namedness # s.namedness
       THEN "ErrBadOption"
       ELSE "nil"

\* One inner map of cloneEntries: the instances of one type copied into the
\* destination's map m0 for that type.  Go ranges over a map in an
\* unspecified order, so when the source's default-named instance is remapped
\* onto a name the source also uses, either of the two can be written last:
\* remapLast says which.
CloneInner(inst, m0, nameFilter, srcDefault, destDefault, remapLast) ==
    LET remap == nameFilter = "" /\ destDefault # srcDefault
        copied == IF nameFilter # "" THEN (DOMAIN inst) \cap {nameFilter} ELSE DOMAIN inst
        Target(n) == IF remap /\ n = srcDefault THEN destDefault ELSE n
        targets == {Target(n) : n \in copied}
        Source(t) ==
            IF remap /\ t = destDefault /\ srcDefault \in copied
            THEN IF destDefault \in copied /\ ~remapLast THEN destDefault ELSE srcDefault
            ELSE t
    IN [t \in (DOMAIN m0) \cup targets |-> IF t \in targets THEN inst[Source(t)] ELSE m0[t]]

\* destInner as it would be if cloneEntries stored the source's own inner map
\* in the destination (dest.store[rt] = instances) in place of a map made
\* for it.
destInnerShared(W, src, dest, rt) ==
    IF rt \in DOMAIN W.store[dest] THEN W.store[dest][rt] ELSE W.store[src][rt]

\* destInner as it would be if cloneEntries always stored the source's inner
\* map in the destination.
destInnerOfSource(W, src, dest, rt) == W.store[src][rt]

\* The destination's inner map for type rt in cloneEntries: the one it has,
\* or a map made for it.
destInner(W, src, dest, rt) ==
    IF rt \in DOMAIN W.store[dest] THEN W.store[dest][rt] ELSE NewInner(dest, rt)

\* cloneEntries(src, dest): the set of worlds it can leave.
cloneEntries(W, src, dest) ==
    LET W0 == IF dest \in DOMAIN W.store THEN W
              ELSE [W EXCEPT !.store = (dest :> EmptyMap) @@ W.store]
        opts == IF W.callOptions[src].present THEN W.callOptions[src] ELSE ZeroCallOpts
        accessibilityOption ==
            valueOrDefault(opts.accessibility, AccessibilityUndefined, AccessibilityUndefined)
        namednessOption == valueOrDefault(opts.namedness, NamednessUndefined, NamednessUndefined)
        uniqueType == opts.uniqueType
        nameFilter == opts.name
        \* access.Info(rt) is instantiated at the static type of rt, reflect.Type
        rtInfo == Info("reflect.Type")
        Skipped(rt) ==
            \/ /\ namednessOption + accessibilityOption > 0
               /\ \/ accessibilityOption # 0 /\ rtInfo[2] # accessibilityOption
                  \/ namednessOption # 0 /\ rtInfo[1] # namednessOption
            \/ Cardinality(DOMAIN Instances(W0, src, rt)) > 1 /\ uniqueType
        sel == {rt \in DOMAIN W0.store[src] : ~Skipped(rt)}
        had == DOMAIN W0.store[dest]
        destRef(rt) == destInner(W0, src, dest, rt)
        content(rt, remapLast) ==
            CloneInner(Instances(W0, src, rt),
                       IF destRef(rt) \in Live(W0) THEN W0.inner[destRef(rt)] ELSE EmptyMap,
                       nameFilter, W0.config[src].defaultName,
                       W0.config[dest].defaultName, remapLast)
        Build(pick) ==
            [W0 EXCEPT
               !.store[dest] = [rt \in had \cup sel |-> destRef(rt)],
               !.inner = [id \in (DOMAIN W0.inner) \cup {destRef(rt) : rt \in sel} |->
                            IF \E rt \in sel : destRef(rt) = id
                            THEN LET rt == CHOOSE x \in sel : destRef(x) = id
                                 IN content(rt, pick[rt])
                            ELSE W0.inner[id]]]
    IN {Build(pick) : pick \in [sel -> BOOLEAN]}

\* ------------------------------------------------------------------------
\* The effect of each option on registry r: the set of outcomes [w, err].
withRegistryOption(W, original, useRegistry) ==
    IF ~W.config[original].init.complete
    THEN {Out(W, "ErrNotSupported")}
    ELSE {Out([W EXCEPT !.callOptions[original].withRegistry = useRegistry], "nil")}

withUniqueTypeOption(W, r) ==
    IF ~W.config[r].init.complete
    THEN IF W.config[r].init.uniqueTypesSet
         THEN {Out(W, "ErrBadOption")}
         ELSE {Out([W EXCEPT !.config[r].uniqueTypes = TRUE,
                             !.config[r].init.uniqueTypesSet = TRUE], "nil")}
    ELSE {Out([W EXCEPT !.callOptions[r].uniqueType = TRUE], "nil")}

\* withUniqueNamesOption as it would be if, on a call, it set the flag of
\* WithUniqueType.
withUniqueNamesOptionAsType(W, r) ==
    IF ~W.config[r].init.complete
    THEN IF W.config[r].init.uniqueNamesSet
         THEN {Out(W, "ErrBadOption")}
         ELSE {Out([W EXCEPT !.config[r].uniqueNames = TRUE,
                             !.config[r].init.uniqueNamesSet = TRUE], "nil")}
    ELSE {Out([W EXCEPT !.callOptions[r].uniqueType = TRUE], "nil")}

withUniqueNamesOption(W, r) ==
    IF ~W.config[r].init.complete
    THEN IF W.config[r].init.uniqueNamesSet
         THEN {Out(W, "ErrBadOption")}
         ELSE {Out([W EXCEPT !.config[r].uniqueNames = TRUE,
                             !.config[r].init.uniqueNamesSet = TRUE], "nil")}
    ELSE {Out([W EXCEPT !.callOptions[r].uniqueName = TRUE], "nil")}

\* withNameOption as it would be if, on a call, it also set the default name
\* of the registry.
withNameOptionIntoConfig(W, r, n) ==
    IF ~W.config[r].init.complete
    THEN IF W.config[r].defaultName # DefaultName
         THEN {Out(W, "ErrBadOption")}
         ELSE {Out([W EXCEPT !.config[r].defaultName = n], "nil")}
    ELSE {Out([W EXCEPT !.callOptions[r].name = n, !.config[r].defaultName = n], "nil")}

withNameOption(W, r, n) ==
    IF ~W.config[r].init.complete
    THEN IF W.config[r].defaultName # DefaultName
         THEN {Out(W, "ErrBadOption")}
         ELSE {Out([W EXCEPT !.config[r].defaultName = n], "nil")}
    ELSE {Out([W EXCEPT !.callOptions[r].name = n], "nil")}

withNamednessOption(W, r, namedness) ==
    IF ~W.config[r].init.complete
    THEN IF W.config[r].init.namednessSet
         THEN {Out(W, "ErrBadOption")}
         ELSE {Out([W EXCEPT !.config[r].namedness = namedness,
                             !.config[r].init.namednessSet = TRUE], "nil")}
    ELSE {Out([W EXCEPT !.callOptions[r].namedness = namedness], "nil")}

withAccessibilityOption(W, r, level) ==
    IF ~W.config[r].init.complete
    THEN IF W.config[r].init.accessibilitySet
         THEN {Out(W, "ErrBadOption")}
         ELSE {Out([W EXCEPT !.config[r].accessibility = level,
                             !.config[r].init.accessibilitySet = TRUE], "nil")}
    ELSE {Out([W EXCEPT !.callOptions[r].accessibility = level], "nil")}

withCloneEntriesOption(W, dest, src) ==
    IF W.config[dest].init.complete THEN {Out(W, "ErrNotSupported")}
    ELSE IF checkBadOpt(W, src, dest) # "nil" THEN {Out(W, checkBadOpt(W, src, dest))}
    ELSE {Out(w2, "nil") : w2 \in cloneEntries(W, src, dest)}

withCloneConfigOption(W, dest, src) ==
    IF W.config[dest].init.complete THEN {Out(W, "ErrNotSupported")}
    ELSE IF checkBadOpt(W, src, dest) # "nil" THEN {Out(W, checkBadOpt(W, src, dest))}
    ELSE {Out([W EXCEPT !.config[dest] = clone(W.config[src])], "nil")}

\* withCloneRegistryOption as it would be without the test of
\* init.complete.
withCloneRegistryOptionAnywhere(W, dest, src) ==
    IF checkBadOpt(W, src, dest) # "nil" THEN {Out(W, checkBadOpt(W, src, dest))}
    ELSE LET W1 == [W EXCEPT !.config[dest] = clone(W.config[src])]
         IN {Out(w2, "nil") : w2 \in cloneEntries(W1, src, dest)}

\* withCloneRegistryOption as it would be if it refused a destination that
\* already holds cloned entries.
withCloneRegistryOptionExclusive(W, dest, src) ==
    IF W.config[dest].init.complete THEN {Out(W, "ErrNotSupported")}
    ELSE IF DOMAIN W.store[dest] # {} THEN {Out(W, "ErrBadOption")}
    ELSE IF checkBadOpt(W, src, dest) # "nil" THEN {Out(W, checkBadOpt(W, src, dest))}
    ELSE LET W1 == [W EXCEPT !.config[dest] = clone(W.config[src])]
         IN {Out(w2, "nil") : w2 \in cloneEntries(W1, src, dest)}

withCloneRegistryOption(W, dest, src) ==
    IF W.config[dest].init.complete THEN {Out(W, "ErrNotSupported")}
    ELSE IF checkBadOpt(W, src, dest) # "nil" THEN {Out(W, checkBadOpt(W, src, dest))}
    ELSE LET W1 == [W EXCEPT !.config[dest] = clone(W.config[src])]
         IN {Out(w2, "nil") : w2 \in cloneEntries(W1, src, dest)}

\* option.apply
ApplyOption(W, r, o) ==
    CASE o.kind = "WithRegistry" -> withRegistryOption(W, r, o.reg)
      [] o.kind = "WithUniqueType" -> withUniqueTypeOption(W, r)
      [] o.kind = "WithUniqueName" -> withUniqueNamesOption(W, r)
      [] o.kind = "WithName" -> withNameOption(W, r, o.name)
      [] o.kind = "WithNamedness" -> withNamednessOption(W, r, o.level)
      [] o.kind = "WithAccessibility" -> withAccessibilityOption(W, r, o.level)
      [] o.kind = "WithCloneEntries" -> withCloneEntriesOption(W, r, o.reg)
      [] o.kind = "WithCloneConfig" -> withCloneConfigOption(W, r, o.reg)
      [] o.kind = "WithCloneRegistry" -> withCloneRegistryOption(W, r, o.reg)

\* The loop of applyOptions as it would be without r.dropCallOpts() on an
\* error.
RECURSIVE applyFromKeep(_, _, _, _)
applyFromKeep(W, r, s, i) ==
    IF i > Len(s) THEN {Out(W, "nil")}
    ELSE UNION {IF o.err # "nil"
                THEN {Out(o.w, o.err)}
                ELSE applyFromKeep(o.w, r, s, i + 1) : o \in ApplyOption(W, r, s[i])}

\* The loop of applyOptions over the sorted options, from position i.
RECURSIVE applyFrom(_, _, _, _)
applyFrom(W, r, s, i) ==
    IF i > Len(s) THEN {Out(W, "nil")}
    ELSE UNION {IF o.err # "nil"
                THEN {Out(dropCallOpts(o.w, r), o.err)}
                ELSE applyFrom(o.w, r, s, i + 1) : o \in ApplyOption(W, r, s[i])}

applyOptions(W, r, opts) ==
    LET W0 == ensureCallOpts(W, r)
    IN IF Len(opts) = 0 THEN {Out(W0, "nil")}
       ELSE applyFrom(W0, r, SortStable(opts), 1)

\* unwrapOptions as it would be if only the first argument were unwrapped.
unwrapOptionsFirst(builders) ==
    IF builders = <<>> THEN <<>> ELSE Head(builders)

\* unwrapOptions: the options of the builders, builder after builder.
RECURSIVE unwrapOptions(_)
unwrapOptions(builders) ==
    IF builders = <<>> THEN <<>>
    ELSE Head(builders) \o unwrapOptions(Tail(builders))

\* ------------------------------------------------------------------------
\* The bodies of the operations.  Each returns the world it leaves, the
\* error ("nil" for none) and the settings it resolved (eff).
Eff(n, tu, nu, ra, rn) ==
    [name |-> n, typeMustBeUnique |-> tu, nameMustBeUnique |-> nu,
     requiredAccessibility |-> ra, requiredNamedness |-> rn]

ZeroEff == Eff("", FALSE, FALSE, 0, 0)

NoValue == 0

Res(W, e, out, eff) == [w |-> W, err |-> e, out |-> out, eff |-> eff]

\* storeChecked as it would be with the store moved above the checks.
storeCheckedStoreFirst(W, ref, name, T, val, eff) ==
    LET W3 == [W EXCEPT !.inner[ref] = MapPut(@, name, Box(T, val))]
    IN IF eff.typeMustBeUnique /\ Cardinality(DOMAIN W.inner[ref]) # 0
       THEN Res(W3, "ErrNotUniqueType", NoValue, eff)
       ELSE IF name \in DOMAIN W.inner[ref] /\ eff.nameMustBeUnique
       THEN Res(W3, "ErrNotUniqueName", NoValue, eff)
       ELSE Res(W3, "nil", NoValue, eff)

\* storeChecked as it would be with the test of getType and unsetType
\* (more than one instance) in place of its own (any instance).
storeCheckedMoreThanOne(W, ref, name, T, val, eff) ==
    IF eff.typeMustBeUnique /\ Cardinality(DOMAIN W.inner[ref]) > 1
    THEN Res(W, "ErrNotUniqueType", NoValue, eff)
    ELSE IF name \in DOMAIN W.inner[ref] /\ eff.nameMustBeUnique
    THEN Res(W, "ErrNotUniqueName", NoValue, eff)
    ELSE Res([W EXCEPT !.inner[ref] = MapPut(@, name, Box(T, val))], "nil", NoValue, eff)

\* storeChecked as it would be without the test of the name: a Set under a
\* used name overwrites.
storeCheckedNameOverwrite(W, ref, name, T, val, eff) ==
    IF eff.typeMustBeUnique /\ Cardinality(DOMAIN W.inner[ref]) # 0
    THEN Res(W, "ErrNotUniqueType", NoValue, eff)
    ELSE Res([W EXCEPT !.inner[ref] = MapPut(@, name, Box(T, val))], "nil", NoValue, eff)

\* The end of setType: the uniqueness checks and the store.
storeChecked(W, ref, name, T, val, eff) ==
    IF eff.typeMustBeUnique /\ Cardinality(DOMAIN W.inner[ref]) # 0
    THEN Res(W, "ErrNotUniqueType", NoValue, eff)
    ELSE IF name \in DOMAIN W.inner[ref] /\ eff.nameMustBeUnique
    THEN Res(W, "ErrNotUniqueName", NoValue, eff)
    ELSE Res([W EXCEPT !.inner[ref] = MapPut(@, name, Box(T, val))], "nil", NoValue, eff)

setType(W, r, T, val) ==
    LET W1 == IF ~W.callOptions[r].present THEN ensureCallOpts(W, r) ELSE W
        co == W1.callOptions[r]
        cfg == W1.config[r]
        name == valueOrDefault(co.name, "", cfg.defaultName)
        typeMustBeUnique == cfg.uniqueTypes \/ co.uniqueType
        nameMustBeUnique == cfg.uniqueNames \/ co.uniqueName
        typeNamedness == Info(T)[1]
        typeAccessibility == Info(T)[2]
        requiredAccessibility == Max(cfg.accessibility, co.accessibility)
        requiredNamedness == Max(cfg.namedness, co.namedness)
        eff == Eff(name, typeMustBeUnique, nameMustBeUnique,
                   requiredAccessibility, requiredNamedness)
        W2 == IF T \notin DOMAIN W1.store[r]
              THEN [W1 EXCEPT !.store[r] = MapPut(@, T, NewInner(r, T)),
                              !.inner = MapPut(@, NewInner(r, T), EmptyMap)]
              ELSE W1
    IN IF typeAccessibility < requiredAccessibility
       THEN Res(W1, "ErrAccessibilityTooLow", NoValue, eff)
       ELSE IF typeNamedness < requiredNamedness
       THEN Res(W1, "ErrNamednessTooLow", NoValue, eff)
       ELSE storeChecked(W2, W2.store[r][T], name, T, val, eff)

unsetType(W, r, T) ==
    LET W1 == ensureCallOpts(W, r)
        co == W1.callOptions[r]
        cfg == W1.config[r]
        typeMustBeUnique == co.uniqueType
        name == valueOrDefault(co.name, "", cfg.defaultName)
        eff == Eff(name, typeMustBeUnique, FALSE, 0, 0)
    IN IF T \notin DOMAIN W1.store[r]
       THEN Res(W1, "ErrNotFound", NoValue, eff)
       ELSE LET ref == W1.store[r][T]
                instances == W1.inner[ref]
            IN IF typeMustBeUnique /\ Cardinality(DOMAIN instances) > 1
               THEN Res(W1, "ErrNotUniqueType", NoValue, eff)
               ELSE IF name \notin DOMAIN instances
               THEN Res(W1, "ErrNotFound", NoValue, eff)
               ELSE IF Cardinality(DOMAIN instances) > 1
               THEN Res([W1 EXCEPT !.inner[ref] = MapDel(@, name)], "nil", NoValue, eff)
               ELSE Res([W1 EXCEPT !.store[r] = MapDel(@, T)], "nil", NoValue, eff)

getType(W, r, T) ==
    LET W1 == ensureCallOpts(W, r)
        co == W1.callOptions[r]
        cfg == W1.config[r]
        typeMustBeUnique == cfg.uniqueTypes \/ co.uniqueType
        name == valueOrDefault(co.name, "", cfg.defaultName)
        eff == Eff(name, typeMustBeUnique, FALSE, 0, 0)
    IN IF co.uniqueName
       THEN Res(W1, "ErrNotSupported", NoValue, ZeroEff)
       ELSE IF T \notin DOMAIN W1.store[r]
       THEN Res(W1, "ErrNotFound", NoValue, eff)
       ELSE LET instances == Instances(W1, r, T)
            IN IF typeMustBeUnique /\ Cardinality(DOMAIN instances) > 1
               THEN Res(W1, "ErrNotUniqueType", NoValue, eff)
               ELSE IF name \notin DOMAIN instances
               THEN Res(W1, "ErrNotFound", NoValue, eff)
               ELSE Res(W1, "nil", TypeAssert(instances[name], T), eff)

\* getAll: the worlds it can leave; the returned map is the stub's store.
getAll(W, r) ==
    LET W0 == [W EXCEPT !.store = [o \in (DOMAIN W.store) \ {StubReg} |-> W.store[o]],
                        !.config = (StubReg :> clone(W.config[r])) @@ W.config]
        Done(w) == dropCallOpts([w EXCEPT !.config = [x \in (DOMAIN w.config) \ {StubReg} |->
                                                       w.config[x]]], r)
    IN {Done(w) : w \in cloneEntries(W0, r, StubReg)}

\* handOver as it would be if the call stayed on the registry it was made on.
handOverStay(W, r) == [w |-> W, r |-> r]

\* The hand-over of a call to the registry named by WithRegistry: the call
\* options move from r to the target without their withRegistry.
handOver(W, r) ==
    IF W.callOptions[r].withRegistry # NilReg
    THEN LET withReg == W.callOptions[r].withRegistry
             callOpts == withoutRegistry(W.callOptions[r])
         IN [w |-> [dropCallOpts(W, r) EXCEPT !.callOptions[withReg] = callOpts], r |-> withReg]
    ELSE [w |-> W, r |-> r]

\* cleanup as it would be without its dropCallOpts.
cleanupKeep(W, r) == W

\* cleanup: dropCallOpts and unlock.
cleanup(W, r) == dropCallOpts(W, r)

\* ------------------------------------------------------------------------
\* The public operations on world W with default registry def: the set of
\* results [w, err, out, eff, reg]; reg is the registry the body ran on
\* (NilReg when the call returned before its body).
Ret(res, reg) == [w |-> Collect(res.w), err |-> res.err, out |-> res.out, eff |-> res.eff, reg |-> reg]

Set(W, def, T, val, builders) ==
    {IF o.err # "nil"
     THEN Ret(Res(o.w, o.err, NoValue, ZeroEff), NilReg)
     ELSE LET h == handOver(o.w, def)
          IN Ret(setType(h.w, h.r, T, val), h.r)
     : o \in applyOptions(W, def, unwrapOptions(builders))}

Get(W, def, T, builders) ==
    {IF o.err # "nil"
     THEN Ret(Res(cleanup(o.w, def), o.err, NoValue, ZeroEff), NilReg)
     ELSE IF o.w.callOptions[def].uniqueName
     THEN Ret(Res(cleanup(o.w, def), "ErrNotSupported", NoValue, ZeroEff), NilReg)
     ELSE LET h == handOver(o.w, def)
              g == getType(h.w, h.r, T)
          IN Ret([g EXCEPT !.w = cleanup(g.w, h.r)], h.r)
     : o \in applyOptions(W, def, unwrapOptions(builders))}

GetAll(W, def, builders) ==
    UNION {IF o.err # "nil"
           THEN {Ret(Res(cleanup(o.w, def), o.err, NoValue, ZeroEff), NilReg)}
           ELSE IF o.w.callOptions[def].uniqueName
           THEN {Ret(Res(cleanup(o.w, def), "ErrNotSupported", NoValue, ZeroEff), NilReg)}
           ELSE LET h == handOver(o.w, def)
                IN {Ret(Res(cleanup(w, h.r), "nil", NoValue, ZeroEff), h.r) : w \in getAll(h.w, h.r)}
           : o \in applyOptions(W, def, unwrapOptions(builders))}

Unset(W, def, T, builders) ==
    {IF o.err # "nil"
     THEN Ret(Res(cleanup(o.w, def), o.err, NoValue, ZeroEff), NilReg)
     ELSE IF o.w.callOptions[def].uniqueName
     THEN Ret(Res(cleanup(o.w, def), "ErrNotSupported", NoValue, ZeroEff), NilReg)
     ELSE LET h == handOver(o.w, def)
              u == unsetType(h.w, h.r, T)
          IN Ret([u EXCEPT !.w = cleanup(u.w, h.r)], h.r)
     : o \in applyOptions(W, def, unwrapOptions(builders))}

\* NewRegistry: the registry under construction is id; on an error it is
\* dropped and nil is returned.
Without(W, id) ==
    [store |-> [o \in (DOMAIN W.store) \ {id} |-> W.store[o]],
     inner |-> W.inner,
     config |-> [x \in (DOMAIN W.config) \ {id} |-> W.config[x]],
     callOptions |-> [x \in (DOMAIN W.callOptions) \ {id} |-> W.callOptions[x]]]

NewRegistry(W, id, builders) ==
    LET W0 == [store |-> (id :> EmptyMap) @@ W.store,
               inner |-> W.inner,
               config |-> (id :> NewConfig) @@ W.config,
               callOptions |-> (id :> NilCallOpts) @@ W.callOptions]
    IN {IF o.err # "nil"
        THEN Ret(Res(Without(o.w, id), o.err, NoValue, ZeroEff), NilReg)
        ELSE Ret(Res([o.w EXCEPT !.config[id].init.complete = TRUE], "nil", NoValue, ZeroEff), id)
        : o \in applyOptions(W0, id, unwrapOptions(builders))}

\* ------------------------------------------------------------------------
\* The state: the world, the package variable defaultRegistry, the map the
\* caller holds from its last successful GetAll, the last call with its
\* result, and the number of calls made; for the calls that run
\* concurrently, mu[r] is the thread that holds the mutex of registry r
\* (NoThread: unlocked) and th[t] is where thread t stands in its call.
VARIABLES store, inner, config, callOptions, defaultRegistry, held, lastOp, nops, mu, th

vars == <<store, inner, config, callOptions, defaultRegistry, held, lastOp, nops, mu, th>>

\* sync.Mutex: its zero value is unlocked.
NoThread == 0

Threads == 1..MaxThreads

\* A thread outside any call.
IdleThread ==
    [pc |-> "idle", op |-> "", chain |-> <<>>, nilOption |-> FALSE, r |-> NilReg,
     callOpts |-> NilCallOpts, arg |-> NilReg, from |-> NilReg]

World == [store |-> store, inner |-> inner, config |-> config, callOptions |-> callOptions]

EmptyWorld == [store |-> <<>>, inner |-> <<>>, config |-> <<>>, callOptions |-> <<>>]

Regs == DOMAIN config

Call(op, T, v, builders, res) ==
    [op |-> op, typ |-> T, val |-> v, opts |-> unwrapOptions(builders),
     reg |-> res.reg, err |-> res.err, out |-> res.out, eff |-> res.eff]

Commit(res) ==
    /\ store' = res.w.store
    /\ inner' = res.w.inner
    /\ config' = res.w.config
    /\ callOptions' = res.w.callOptions

\* var defaultRegistry, _ = NewRegistry()
Init ==
    \E res \in NewRegistry(EmptyWorld, 1, <<>>) :
        /\ store = res.w.store
        /\ inner = res.w.inner
        /\ config = res.w.config
        /\ callOptions = res.w.callOptions
        /\ defaultRegistry = 1
        /\ held = NilReg
        /\ lastOp = Call("init", "", NoValue, <<>>, res)
        /\ nops = 0
        /\ mu = [r \in 1..MaxRegs |-> NoThread]
        /\ th = [t \in Threads |-> IdleThread]

\* The option chains calls are made with; a chain is passed as one builder.
Builders(chain) == IF chain = <<>> THEN <<>> ELSE <<chain>>

CallChains ==
    {nc \o fc : nc \in {<<>>, <<WithName("b")>>},
                fc \in {<<>>, <<WithUniqueType>>, <<WithUniqueName>>}}
    \cup {<<WithRegistry(r)>> \o c : r \in Regs,
                                     c \in {<<>>, <<WithName("b")>>, <<WithUniqueType>>,
                                            <<WithUniqueName>>}}
    \cup {<<WithName("")>>,
          <<WithAccessibility(AccessibleEverywhere)>>,
          <<WithUniqueType, WithAccessibility(AccessibleEverywhere)>>,
          <<WithNamedness(NamedType)>>}
    \cup UNION {{<<WithCloneEntries(s)>>, <<WithCloneConfig(s)>>, <<WithCloneRegistry(s)>>} :
                   s \in Regs}

CtorChains ==
    {<<>>, <<WithName("b")>>, <<WithUniqueType>>, <<WithUniqueName>>,
     <<WithAccessibility(AccessibleEverywhere)>>, <<WithRegistry(defaultRegistry)>>}
    \cup UNION {{<<WithCloneEntries(s)>>, <<WithCloneConfig(s)>>, <<WithCloneRegistry(s)>>,
                 <<WithUniqueType, WithCloneEntries(s)>>,
                 <<WithName("b"), WithCloneEntries(s)>>,
                 <<WithNamedness(NamedType), WithCloneEntries(s)>>,
                 <<WithName("b"), WithCloneConfig(s)>>,
                 <<WithAccessibility(AccessibleEverywhere), WithCloneConfig(s)>>} : s \in Regs}

NewRegistryOp ==
    /\ nops < MaxOps
    /\ Cardinality(Regs) < MaxRegs
    /\ \E chain \in CtorChains :
         \E res \in NewRegistry(World, Cardinality(Regs) + 1, Builders(chain)) :
            /\ Commit(res)
            /\ lastOp' = Call("NewRegistry", "", NoValue, Builders(chain), res)
    /\ nops' = nops + 1
    /\ UNCHANGED <<defaultRegistry, held>>
    /\ UNCHANGED <<mu, th>>

SetDefaultRegistryOp ==
    /\ nops < MaxOps
    /\ \E r \in Regs \ {defaultRegistry} :
         /\ defaultRegistry' = r
         /\ lastOp' = [op |-> "SetDefaultRegistry", typ |-> "", val |-> NoValue, opts |-> <<>>,
                       reg |-> r, err |-> "nil", out |-> NoValue, eff |-> ZeroEff]
    /\ nops' = nops + 1
    /\ UNCHANGED <<store, inner, config, callOptions, held>>
    /\ UNCHANGED <<mu, th>>

SetOp ==
    /\ nops < MaxOps
    /\ \E T \in Types, v \in Values, chain \in CallChains :
         \E res \in Set(World, defaultRegistry, T, v, Builders(chain)) :
            /\ Commit(res)
            /\ lastOp' = Call("Set", T, v, Builders(chain), res)
    /\ nops' = nops + 1
    /\ UNCHANGED <<defaultRegistry, held>>
    /\ UNCHANGED <<mu, th>>

GetOp ==
    /\ nops < MaxOps
    /\ \E T \in Types, chain \in CallChains :
         \E res \in Get(World, defaultRegistry, T, Builders(chain)) :
            /\ Commit(res)
            /\ lastOp' = Call("Get", T, NoValue, Builders(chain), res)
    /\ nops' = nops + 1
    /\ UNCHANGED <<defaultRegistry, held>>
    /\ UNCHANGED <<mu, th>>

GetAllOp ==
    /\ nops < MaxOps
    /\ \E chain \in CallChains :
         \E res \in GetAll(World, defaultRegistry, Builders(chain)) :
            /\ Commit(res)
            /\ lastOp' = Call("GetAll", "", NoValue, Builders(chain), res)
            /\ held' = IF res.err = "nil" THEN StubReg ELSE held
    /\ nops' = nops + 1
    /\ UNCHANGED defaultRegistry
    /\ UNCHANGED <<mu, th>>

UnsetOp ==
    /\ nops < MaxOps
    /\ \E T \in Types, chain \in CallChains :
         \E res \in Unset(World, defaultRegistry, T, Builders(chain)) :
            /\ Commit(res)
            /\ lastOp' = Call("Unset", T, NoValue, Builders(chain), res)
    /\ nops' = nops + 1
    /\ UNCHANGED <<defaultRegistry, held>>
    /\ UNCHANGED <<mu, th>>

\* The caller changes the map it got from GetAll: delete(all, T),
\* all[T] = map[string]any{}, delete(all[T], n) or all[T][n] = v.
CallerMap == -2

Mutate(W, h, kind, T, n, v) ==
    CASE kind = "delete outer" -> [W EXCEPT !.store[h] = MapDel(@, T)]
      [] kind = "put outer" ->
            [W EXCEPT !.store[h] = MapPut(@, T, NewInner(CallerMap, T)),
                      !.inner = MapPut(@, NewInner(CallerMap, T), EmptyMap)]
      [] kind = "delete inner" -> [W EXCEPT !.inner[W.store[h][T]] = MapDel(@, n)]
      [] kind = "put inner" -> [W EXCEPT !.inner[W.store[h][T]] = MapPut(@, n, Box(T, v))]

MutateHeld ==
    /\ nops < MaxOps
    /\ held # NilReg
    /\ \E kind \in {"delete outer", "put outer", "delete inner", "put inner"},
          T \in Types, n \in Names, v \in Values :
         /\ kind \in {"delete outer", "delete inner", "put inner"} => T \in DOMAIN store[held]
         /\ kind = "delete inner" => n \in DOMAIN inner[store[held][T]]
         /\ kind \in {"delete outer", "put outer"} => n = "" /\ v = 1
         /\ kind = "delete inner" => v = 1
         /\ Commit([w |-> Collect(Mutate(World, held, kind, T, n, v))])
         /\ lastOp' = [op |-> kind, typ |-> T, val |-> v, opts |-> <<>>,
                       reg |-> NilReg, err |-> "nil", out |-> NoValue,
                       eff |-> Eff(n, FALSE, FALSE, 0, 0)]
    /\ nops' = nops + 1
    /\ UNCHANGED <<defaultRegistry, held>>
    /\ UNCHANGED <<mu, th>>

Next ==
    \/ NewRegistryOp
    \/ SetDefaultRegistryOp
    \/ SetOp
    \/ GetOp
    \/ GetAllOp
    \/ UnsetOp
    \/ MutateHeld

Spec == Init /\ [][Next]_vars

\* ------------------------------------------------------------------------
\* What the properties below observe.

\* The entries of registry r in world W: type -> name -> boxed value.
Content(W, r) == [T \in DOMAIN W.store[r] |-> W.inner[W.store[r][T]]]

RegContent(r) == Content(World, r)

\* The persistent state: the Store and the Config of every registry.
Persistent == [r \in Regs |-> [store |-> RegContent(r), config |-> config[r]]]

HasOpt(opts, kind) == \E i \in 1..Len(opts) : opts[i].kind = kind

\* The registry a WithRegistry among opts names, NilReg if there is none.
RedirectOf(opts) ==
    IF HasOpt(opts, "WithRegistry")
    THEN opts[CHOOSE i \in 1..Len(opts) : opts[i].kind = "WithRegistry"].reg
    ELSE NilReg

\* The registry a call with opts is meant for.
TargetOf(opts) == IF RedirectOf(opts) # NilReg THEN RedirectOf(opts) ELSE defaultRegistry

\* The options a Set accepts.
ValidSetOpts(opts) ==
    \A i \in 1..Len(opts) :
        opts[i].kind \in {"WithRegistry", "WithName", "WithUniqueType", "WithUniqueName",
                          "WithAccessibility", "WithNamedness"}

NameOrRegistryOnly(opts) ==
    \A i \in 1..Len(opts) : opts[i].kind \in {"WithRegistry", "WithName"}

CallStateEmpty(r) == ~callOptions[r].present \/ callOptions[r] = ZeroCallOpts

\* The step is a call of op.
Step(op) == lastOp'.op = op /\ nops' = nops + 1

C2_CallStateEphemeral == \A r \in Regs : CallStateEmpty(r)

\* C3: a failed operation changes nothing persistent.  A call that returns
\* an error leaves the Store and the Config of every registry as they were.
C3_FailureChangesNothing ==
    [][(nops' = nops + 1 /\ lastOp'.err # "nil") => Persistent' = Persistent]_vars

\* A Set was refused by a uniqueness test while a registry holds entries.
C3_Witness ==
    /\ lastOp.op = "Set"
    /\ lastOp.err \in {"ErrNotUniqueName", "ErrNotUniqueType"}
    /\ \E r \in Regs : DOMAIN store[r] # {}

\* ------------------------------------------------------------------------
\* A Set step seen from the state before it.

\* The Set is made with options a Set accepts.
SetStep == Step("Set") /\ ValidSetOpts(lastOp'.opts)

\* The registry's own flag or the call's option asks for the uniqueness.
TypeUniqueAsked ==
    config[TargetOf(lastOp'.opts)].uniqueTypes \/ HasOpt(lastOp'.opts, "WithUniqueType")

NameUniqueAsked ==
    config[TargetOf(lastOp'.opts)].uniqueNames \/ HasOpt(lastOp'.opts, "WithUniqueName")

\* The entries the type set has in the target registry before the call.
EntriesBefore ==
    LET r == TargetOf(lastOp'.opts)
    IN IF lastOp'.typ \in DOMAIN store[r] THEN inner[store[r][lastOp'.typ]] ELSE EmptyMap

TargetUnchanged ==
    \A r \in Regs : r = TargetOf(lastOp'.opts) => RegContent(r)' = RegContent(r)

\* No call-state is left over, on the default registry or on the target.
NoLeftOver == CallStateEmpty(defaultRegistry) /\ CallStateEmpty(TargetOf(lastOp'.opts))

\* The floors the call resolved admit the type.
FloorsMet ==
    /\ Info(lastOp'.typ)[2] >= lastOp'.eff.requiredAccessibility
    /\ Info(lastOp'.typ)[1] >= lastOp'.eff.requiredNamedness

\* The error of a Set that the floors refuse.
FloorError ==
    IF Info(lastOp'.typ)[2] < lastOp'.eff.requiredAccessibility
    THEN "ErrAccessibilityTooLow" ELSE "ErrNamednessTooLow"

\* C4 as stated: with type-uniqueness in effect and an entry of the type in
\* the registry, a Set of that type fails with NotUniqueType and the entries
\* of the type stay as they were.
C4_AsStated ==
    [][(SetStep /\ NoLeftOver /\ TypeUniqueAsked /\ DOMAIN EntriesBefore # {})
       => (lastOp'.err = "ErrNotUniqueType" /\ TargetUnchanged)]_vars

\* C4: with type-uniqueness in effect and an entry of the type in the
\* registry, a Set of that type fails whatever its name and the entries stay
\* as they were; the error is NotUniqueType when the type meets the floors
\* of the call, and the floor's error when it does not.
C4_TypeUniqueness ==
    [][(SetStep /\ TypeUniqueAsked /\ DOMAIN EntriesBefore # {})
       => (/\ TargetUnchanged
           /\ lastOp'.err = IF FloorsMet THEN "ErrNotUniqueType" ELSE FloorError)]_vars

\* A Set under a new name was refused with NotUniqueType.
C4_Witness ==
    /\ lastOp.op = "Set"
    /\ lastOp.err = "ErrNotUniqueType"
    /\ lastOp.reg # NilReg
    /\ lastOp.typ \in DOMAIN store[lastOp.reg]
    /\ lastOp.eff.name \notin DOMAIN inner[store[lastOp.reg][lastOp.typ]]

\* C5 as stated: with name-uniqueness in effect, a Set under a name the type
\* has an entry for fails with NotUniqueName and changes nothing, and a Set
\* under a name the type has no entry for succeeds.
C5_AsStated ==
    [][(SetStep /\ NoLeftOver /\ NameUniqueAsked)
       => IF lastOp'.eff.name \in DOMAIN EntriesBefore
          THEN lastOp'.err = "ErrNotUniqueName" /\ TargetUnchanged
          ELSE lastOp'.err = "nil"]_vars

\* C5: with name-uniqueness in effect, and the Set not refused earlier (the
\* type meets the floors of the call, and type-uniqueness is not enforced
\* on a type that has an entry), a Set under a name the type has an entry
\* for fails with NotUniqueName and changes nothing, and a Set under a name
\* the type has no entry for succeeds and stores the value under that name.
C5_NameUniqueness ==
    [][(/\ SetStep /\ NameUniqueAsked /\ FloorsMet
        /\ ~(lastOp'.eff.typeMustBeUnique /\ DOMAIN EntriesBefore # {}))
       => IF lastOp'.eff.name \in DOMAIN EntriesBefore
          THEN lastOp'.err = "ErrNotUniqueName" /\ TargetUnchanged
          ELSE /\ lastOp'.err = "nil"
               /\ \A r \in Regs :
                    r = TargetOf(lastOp'.opts) =>
                        RegContent(r)' = MapPut(RegContent(r), lastOp'.typ,
                                                MapPut(EntriesBefore, lastOp'.eff.name,
                                                       Box(lastOp'.typ, lastOp'.val)))]_vars

\* A Set that carries WithUniqueName was refused with NotUniqueName.
C5_Witness ==
    /\ lastOp.op = "Set"
    /\ lastOp.err = "ErrNotUniqueName"
    /\ HasOpt(lastOp.opts, "WithUniqueName")

\* C6: a registry whose config asks for unique types holds at most one
\* instance of every type.
C6_UniqueTypeForever ==
    \A r \in Regs :
        config[r].uniqueTypes => \A T \in DOMAIN store[r] : Cardinality(DOMAIN inner[store[r][T]]) <= 1

\* C7: no type key of a registry's Store maps to an empty name mapping.
C7_StoreShape ==
    \A r \in Regs : \A T \in DOMAIN store[r] : DOMAIN inner[store[r][T]] # {}

\* C8: a GetAll without filtering options returns exactly the entries of the
\* registry it ran on.
C8_GetAllExact ==
    (/\ lastOp.op = "GetAll" /\ lastOp.err = "nil"
     /\ \A i \in 1..Len(lastOp.opts) : lastOp.opts[i].kind = "WithRegistry")
    => Content(World, StubReg) = RegContent(lastOp.reg)

\* ------------------------------------------------------------------------
\* What a caller can get from the registries: the outcome of every Get and
\* of every GetAll it can make by default name, by name and by registry.
ReadChains == {<<>>, <<WithName("b")>>} \cup {<<WithRegistry(r)>> : r \in Regs}

GetResults(W, def) ==
    UNION {{<<T, chain, res.err, res.out>> : res \in Get(W, def, T, Builders(chain))} :
              T \in Types, chain \in ReadChains}

GetAllResults(W, def) ==
    UNION {{<<chain, res.err, IF res.err = "nil" THEN Content(res.w, StubReg) ELSE EmptyMap>> :
               res \in GetAll(W, def, Builders(chain))} : chain \in ReadChains}

MutationKinds == {"delete outer", "put outer", "delete inner", "put inner"}

\* C9: GetAll isolation.  A change the caller makes to the map GetAll
\* returned (outer map or an inner map: add, replace, delete) changes no
\* registry's entries and the result of no Get or GetAll made after it.
C9_GetAllIsolation ==
    [][(lastOp'.op \in MutationKinds /\ nops' = nops + 1)
       => (/\ \A r \in Regs : RegContent(r)' = RegContent(r)
           /\ GetResults(World, defaultRegistry)' = GetResults(World, defaultRegistry)
           /\ GetAllResults(World, defaultRegistry)' = GetAllResults(World, defaultRegistry))]_vars

\* The caller changed an inner map of the result of a GetAll on a registry
\* that holds entries.
C9_Witness ==
    /\ lastOp.op \in {"delete inner", "put inner"}
    /\ \E r \in Regs : DOMAIN store[r] # {}

\* The world with the Store of every registry but r emptied.
OnlyStoreOf(W, r) ==
    Collect([W EXCEPT !.store = [o \in DOMAIN W.store |->
                                    IF o = r THEN W.store[o] ELSE EmptyMap]])

\* The outcomes of the call lastOp' records, made on world W.
Outcomes(W, def, r, op, T, v, opts) ==
    CASE op = "Set" ->
            {<<res.err, res.out, Content(res.w, r)>> : res \in Set(W, def, T, v, Builders(opts))}
      [] op = "Get" ->
            {<<res.err, res.out, Content(res.w, r)>> : res \in Get(W, def, T, Builders(opts))}
      [] op = "Unset" ->
            {<<res.err, res.out, Content(res.w, r)>> : res \in Unset(W, def, T, Builders(opts))}
      [] op = "GetAll" ->
            {<<res.err, IF res.err = "nil" THEN Content(res.w, StubReg) ELSE EmptyMap,
               Content(res.w, r)>> : res \in GetAll(W, def, Builders(opts))}

\* C10: redirect scoping.  A Set, Get, GetAll or Unset that carries
\* WithRegistry(r), r not the default registry, changes the entries of no
\* registry but r, and its outcome (error, value or map returned, entries of
\* r after it) is an outcome of the same call with the Store of every other
\* registry emptied.
C10_RedirectScoping ==
    [][\A r \in Regs \ {defaultRegistry} :
         (/\ lastOp'.op \in {"Set", "Get", "GetAll", "Unset"}
          /\ nops' = nops + 1
          /\ RedirectOf(lastOp'.opts) = r)
         => (/\ \A q \in Regs \ {r} : RegContent(q)' = RegContent(q)
             /\ \E o \in Outcomes(OnlyStoreOf(World, r), defaultRegistry, r, lastOp'.op,
                                  lastOp'.typ, lastOp'.val, lastOp'.opts) :
                   /\ o[1] = lastOp'.err
                   /\ o[2] = (IF lastOp'.op = "GetAll"
                              THEN (IF lastOp'.err = "nil" THEN Content(World, StubReg)' ELSE EmptyMap)
                              ELSE lastOp'.out)
                   /\ o[3] = RegContent(r)')]_vars

\* A Set redirected to another registry succeeded while the default registry
\* holds an entry of the same type under the same name.
C10_Witness ==
    /\ lastOp.op = "Set"
    /\ lastOp.err = "nil"
    /\ RedirectOf(lastOp.opts) \notin {NilReg, defaultRegistry}
    /\ lastOp.typ \in DOMAIN store[defaultRegistry]
    /\ lastOp.eff.name \in DOMAIN inner[store[defaultRegistry][lastOp.typ]]

\* ------------------------------------------------------------------------
\* An Unset or a Get step seen from the state before it.

\* The name a WithName among opts gives, "" if there is none.
NameOf(opts) ==
    IF HasOpt(opts, "WithName")
    THEN opts[CHOOSE i \in 1..Len(opts) : opts[i].kind = "WithName"].name
    ELSE ""

\* The name the call asks for: its WithName, else the default name of the
\* registry it is meant for.
NameAsked ==
    valueOrDefault(NameOf(lastOp'.opts), "", config[TargetOf(lastOp'.opts)].defaultName)

\* The options a Get and an Unset accept.
ValidReadOpts(opts) ==
    \A i \in 1..Len(opts) : opts[i].kind \in {"WithRegistry", "WithName", "WithUniqueType"}

\* The errors of the Get of type T under name n on registry r.
FollowingGet(T, n, r) ==
    {res.err : res \in Get(World, defaultRegistry, T, Builders(<<WithRegistry(r), WithName(n)>>))}

\* The entries of the target registry after the removal of name n of the
\* type of the call.
Removed(r, n) ==
    IF DOMAIN EntriesBefore = {n}
    THEN MapDel(RegContent(r), lastOp'.typ)
    ELSE MapPut(RegContent(r), lastOp'.typ, MapDel(EntriesBefore, n))

\* C11: Unset of type T under name n fails with NotFound when T has no
\* entries, with NotUniqueType when WithUniqueType is passed and T has more
\* than one entry, with NotFound when T has no entry under n, and changes
\* nothing in these cases; otherwise it removes the entry (T, n) and nothing
\* else, removes the key T iff n was its last entry, and the Get of T under n
\* that follows fails with NotFound.
C11_UnsetOutcome ==
    [][(Step("Unset") /\ ValidReadOpts(lastOp'.opts))
       => \A r \in Regs, n \in Names, T \in Types :
            (r = TargetOf(lastOp'.opts) /\ n = NameAsked /\ T = lastOp'.typ)
            => IF DOMAIN EntriesBefore = {}
               THEN lastOp'.err = "ErrNotFound" /\ TargetUnchanged
               ELSE IF HasOpt(lastOp'.opts, "WithUniqueType")
                       /\ Cardinality(DOMAIN EntriesBefore) > 1
               THEN lastOp'.err = "ErrNotUniqueType" /\ TargetUnchanged
               ELSE IF n \notin DOMAIN EntriesBefore
               THEN lastOp'.err = "ErrNotFound" /\ TargetUnchanged
               ELSE /\ lastOp'.err = "nil"
                    /\ RegContent(r)' = Removed(r, n)
                    /\ \A q \in Regs \ {r} : RegContent(q)' = RegContent(q)
                    /\ FollowingGet(T, n, r)' = {"ErrNotFound"}]_vars

\* C12: Get of type T under name n returns NotFound when T has no entries,
\* else NotUniqueType when the Config or WithUniqueType on the call asks for
\* type-uniqueness and T has more than one entry, else NotFound when T has
\* no entry under n, else the value stored under (T, n); it changes no Store.
C12_GetOutcome ==
    [][(Step("Get") /\ ValidReadOpts(lastOp'.opts))
       => (/\ \A q \in Regs : RegContent(q)' = RegContent(q)
           /\ IF DOMAIN EntriesBefore = {}
              THEN lastOp'.err = "ErrNotFound"
              ELSE IF TypeUniqueAsked /\ Cardinality(DOMAIN EntriesBefore) > 1
              THEN lastOp'.err = "ErrNotUniqueType"
              ELSE IF NameAsked \notin DOMAIN EntriesBefore
              THEN lastOp'.err = "ErrNotFound"
              ELSE /\ lastOp'.err = "nil"
                   /\ Box(lastOp'.typ, lastOp'.out) = EntriesBefore[NameAsked])]_vars

\* ------------------------------------------------------------------------
\* The Get with no name option that follows a Get with a name.

\* Name, error and value of a Get of type T on registry r that resolves to
\* the default name of r; ut: the Get carries WithUniqueType.
DefaultGet(T, r, ut) ==
    LET d == config[r].defaultName
        e == IF T \in DOMAIN store[r] THEN inner[store[r][T]] ELSE EmptyMap
    IN IF DOMAIN e = {}
       THEN <<d, "ErrNotFound", NoValue>>
       ELSE IF (config[r].uniqueTypes \/ ut) /\ Cardinality(DOMAIN e) > 1
       THEN <<d, "ErrNotUniqueType", NoValue>>
       ELSE IF d \notin DOMAIN e
       THEN <<d, "ErrNotFound", NoValue>>
       ELSE <<d, "nil", e[d].v>>

\* C13: the name of a Get does not stay.  A Get with no name option that
\* follows a Get with WithName(n) on the same registry resolves to the
\* default name of the registry and returns the entry stored under the
\* default name (or fails as a Get of the default name does), never the
\* entry named n.
C13_NameDoesNotStay ==
    [][(/\ lastOp.op = "Get" /\ HasOpt(lastOp.opts, "WithName")
        /\ Step("Get")
        /\ ValidReadOpts(lastOp'.opts) /\ ~HasOpt(lastOp'.opts, "WithName")
        /\ TargetOf(lastOp'.opts) = TargetOf(lastOp.opts))
       => <<lastOp'.eff.name, lastOp'.err, lastOp'.out>>
              = DefaultGet(lastOp'.typ, TargetOf(lastOp'.opts),
                           HasOpt(lastOp'.opts, "WithUniqueType"))]_vars

\* A Get with WithName("b") returned the entry named "b" of a type that has
\* no entry under the default name, and a call can follow.
C13_Witness ==
    /\ lastOp.op = "Get"
    /\ lastOp.err = "nil"
    /\ NameOf(lastOp.opts) = "b"
    /\ lastOp.reg # NilReg
    /\ config[lastOp.reg].defaultName = ""
    /\ "" \notin DOMAIN inner[store[lastOp.reg][lastOp.typ]]
    /\ nops < MaxOps

\* ------------------------------------------------------------------------
\* C14: WithUniqueName is not supported on reads and removals.  A Get, a
\* GetAll or an Unset that carries WithUniqueName, alone or with other
\* options, returns NotSupported before its body runs on any registry: it
\* returns no value and no map, and the Store and the Config of every
\* registry stay as they were.
C14_UniqueNameNotSupported ==
    [][(/\ lastOp'.op \in {"Get", "GetAll", "Unset"}
        /\ nops' = nops + 1
        /\ HasOpt(lastOp'.opts, "WithUniqueName"))
       => (/\ lastOp'.err = "ErrNotSupported"
           /\ lastOp'.reg = NilReg
           /\ lastOp'.out = NoValue
           /\ held' = held
           /\ Persistent' = Persistent)]_vars

\* An Unset with WithUniqueName was refused while the registry it is meant
\* for holds entries of its type.
C14_Witness ==
    /\ lastOp.op = "Unset"
    /\ HasOpt(lastOp.opts, "WithUniqueName")
    /\ lastOp.err = "ErrNotSupported"
    /\ lastOp.typ \in DOMAIN store[TargetOf(lastOp.opts)]

\* ------------------------------------------------------------------------
\* C15: WithAccessibility and WithNamedness are not supported on Get and
\* Unset.  A Get or an Unset that carries one of them returns NotSupported.
C15_FloorOptionsNotSupported ==
    (/\ lastOp.op \in {"Get", "Unset"}
     /\ (HasOpt(lastOp.opts, "WithAccessibility") \/ HasOpt(lastOp.opts, "WithNamedness")))
    => lastOp.err = "ErrNotSupported"

\* ------------------------------------------------------------------------
\* An option of opts is a clone option.
HasCloneOpt(opts) ==
    \/ HasOpt(opts, "WithCloneConfig")
    \/ HasOpt(opts, "WithCloneEntries")
    \/ HasOpt(opts, "WithCloneRegistry")

\* C16: options outside their phase.  A NewRegistry that is passed
\* WithRegistry fails with NotSupported and constructs nothing; a Set, Get,
\* GetAll or Unset that is passed WithCloneConfig, WithCloneEntries or
\* WithCloneRegistry fails with NotSupported, returns nothing, and leaves the
\* Store and the Config of every registry, the source's among them, as they
\* were.
C16_WrongPhaseNotSupported ==
    [][/\ (Step("NewRegistry") /\ HasOpt(lastOp'.opts, "WithRegistry"))
          => (lastOp'.err = "ErrNotSupported" /\ Persistent' = Persistent)
       /\ (/\ lastOp'.op \in {"Set", "Get", "GetAll", "Unset"}
           /\ nops' = nops + 1
           /\ HasCloneOpt(lastOp'.opts))
          => (/\ lastOp'.err = "ErrNotSupported"
              /\ lastOp'.out = NoValue
              /\ held' = held
              /\ Persistent' = Persistent)]_vars

\* A Set with WithCloneRegistry(src) was refused, where src is another
\* registry than the default one, holds entries the default registry does
\* not hold, and has another Config.
C16_Witness ==
    /\ lastOp.op = "Set"
    /\ lastOp.err = "ErrNotSupported"
    /\ HasOpt(lastOp.opts, "WithCloneRegistry")
    /\ \E i \in 1..Len(lastOp.opts) :
         /\ lastOp.opts[i].kind = "WithCloneRegistry"
         /\ lastOp.opts[i].reg # defaultRegistry
         /\ DOMAIN store[lastOp.opts[i].reg] # {}
         /\ DOMAIN store[defaultRegistry] = {}
         /\ config[lastOp.opts[i].reg] # config[defaultRegistry]

\* ------------------------------------------------------------------------
\* The level a WithAccessibility or WithNamedness among opts gives, 0 if
\* there is none.
LevelOf(opts, kind) ==
    IF HasOpt(opts, kind)
    THEN opts[CHOOSE i \in 1..Len(opts) : opts[i].kind = kind].level
    ELSE 0

C18_ConfigFloorsHold ==
    \A r \in Regs : \A T \in DOMAIN store[r] :
        DOMAIN inner[store[r][T]] # {}
        => (/\ config[r].init.accessibilitySet => Info(T)[2] >= config[r].accessibility
            /\ config[r].init.namednessSet => Info(T)[1] >= config[r].namedness)

\* ------------------------------------------------------------------------
\* C19: NewRegistry with WithCloneConfig(src).  When the options give the
\* destination an accessibility or a namedness that differs from src's,
\* construction fails with BadOption; otherwise (the settings given are
\* src's, or none is given) construction succeeds and the destination's
\* default name, uniqueness flags, accessibility and namedness are src's,
\* whatever WithName the destination was given.
C19_CloneConfig ==
    [][(/\ Step("NewRegistry")
        /\ HasOpt(lastOp'.opts, "WithCloneConfig")
        /\ \A i \in 1..Len(lastOp'.opts) :
              lastOp'.opts[i].kind \in {"WithCloneConfig", "WithName", "WithAccessibility",
                                        "WithNamedness"})
       => \A s \in Regs :
            (\E i \in 1..Len(lastOp'.opts) :
                lastOp'.opts[i].kind = "WithCloneConfig" /\ lastOp'.opts[i].reg = s)
            => IF \/ (/\ HasOpt(lastOp'.opts, "WithAccessibility")
                      /\ LevelOf(lastOp'.opts, "WithAccessibility") # config[s].accessibility)
                  \/ (/\ HasOpt(lastOp'.opts, "WithNamedness")
                      /\ LevelOf(lastOp'.opts, "WithNamedness") # config[s].namedness)
               THEN lastOp'.err = "ErrBadOption" /\ Persistent' = Persistent
               ELSE /\ lastOp'.err = "nil"
                    /\ lastOp'.reg \in Regs' \ Regs
                    /\ config'[lastOp'.reg].defaultName = config[s].defaultName
                    /\ config'[lastOp'.reg].uniqueTypes = config[s].uniqueTypes
                    /\ config'[lastOp'.reg].uniqueNames = config[s].uniqueNames
                    /\ config'[lastOp'.reg].accessibility = config[s].accessibility
                    /\ config'[lastOp'.reg].namedness = config[s].namedness]_vars

\* ------------------------------------------------------------------------
\* C20: default-name remap.  After NewRegistry(WithName(d),
\* WithCloneEntries(src)) where src's default name s differs from d, for
\* every type of src the destination holds src's entry named s under d and
\* nothing under s, and holds every other entry of src under its own name.
C20_DefaultNameRemap ==
    [][(/\ Step("NewRegistry")
        /\ lastOp'.err = "nil"
        /\ Len(lastOp'.opts) = 2
        /\ HasOpt(lastOp'.opts, "WithName")
        /\ HasOpt(lastOp'.opts, "WithCloneEntries"))
       => \A src \in Regs, dest \in Regs' :
            (/\ dest = lastOp'.reg
             /\ \E i \in 1..2 : lastOp'.opts[i].kind = "WithCloneEntries"
                                /\ lastOp'.opts[i].reg = src
             /\ config[src].defaultName # NameOf(lastOp'.opts))
            => \A T \in DOMAIN store[src] :
                 LET s == config[src].defaultName
                     d == NameOf(lastOp'.opts)
                     from == inner[store[src][T]]
                 IN /\ s \in DOMAIN from
                       => (/\ T \in DOMAIN store'[dest]
                           /\ d \in DOMAIN inner'[store'[dest][T]]
                           /\ inner'[store'[dest][T]][d] = from[s]
                           /\ s \notin DOMAIN inner'[store'[dest][T]])
                    /\ \A n \in (DOMAIN from) \ {s} :
                          /\ T \in DOMAIN store'[dest]
                          /\ n \in DOMAIN inner'[store'[dest][T]]]_vars

\* ------------------------------------------------------------------------
\* C21: WithCloneEntries copies everything.  After
\* NewRegistry(WithCloneEntries(src)) the destination holds, for every entry
\* (T, n, v) of src, the value v for type T under n (under the destination's
\* default name when n is src's default name), holds no other type, and
\* holds for every type as many entries as src.
C21_CloneEntriesCopiesAll ==
    [][(/\ Step("NewRegistry")
        /\ lastOp'.err = "nil"
        /\ Len(lastOp'.opts) = 1
        /\ lastOp'.opts[1].kind = "WithCloneEntries")
       => \A src \in Regs, dest \in Regs' :
            (dest = lastOp'.reg /\ src = lastOp'.opts[1].reg)
            => /\ DOMAIN store'[dest] = DOMAIN store[src]
               /\ \A T \in DOMAIN store[src] :
                    LET from == inner[store[src][T]]
                        to == inner'[store'[dest][T]]
                    IN /\ Cardinality(DOMAIN to) = Cardinality(DOMAIN from)
                       /\ \A n \in DOMAIN from :
                            LET m == IF n = config[src].defaultName
                                     THEN config'[dest].defaultName ELSE n
                            IN m \in DOMAIN to /\ to[m] = from[n]]_vars

\* ------------------------------------------------------------------------
\* A second specification for the construction of registries and for the
\* forms options are passed in: the same operations, called with builders
\* that hold one option each (the variadic form) or a chain of options, in
\* several orders, with clone options combined and modifiers repeated.

\* The builders that pass the options of chain one per argument.
Variadic(chain) == [i \in 1..Len(chain) |-> <<chain[i]>>]

\* The forms chain can be passed in: chained in one builder, or variadic.
Forms(chain) == IF chain = <<>> THEN {<<>>} ELSE {<<chain>>, Variadic(chain)}

FormType == "ExportedNamedTester"

CallSeqs ==
    {<<>>, <<WithName("b")>>, <<WithName("b"), WithUniqueType>>}
    \cup {<<WithName("b"), WithRegistry(r)>> : r \in Regs}
    \cup {<<WithName("b"), WithUniqueType, WithRegistry(r)>> : r \in Regs}
    \cup {<<WithCloneConfig(r), WithName("b"), WithRegistry(r)>> : r \in Regs}

CtorSeqs ==
    {<<>>, <<WithName("b")>>, <<WithUniqueName>>, <<WithNamedness(NamedType)>>,
     <<WithUniqueType, WithUniqueType>>,
     <<WithUniqueName, WithUniqueName>>,
     <<WithAccessibility(AccessibleEverywhere), WithAccessibility(AccessibleEverywhere)>>,
     <<WithNamedness(NamedType), WithNamedness(AnonymousType)>>,
     <<WithName("b"), WithName("b")>>,
     <<WithName("b"), WithName("")>>,
     <<WithName(""), WithName("b")>>, <<WithName(""), WithName("")>>}
    \cup UNION {{<<WithCloneEntries(s)>>, <<WithCloneConfig(s)>>, <<WithCloneRegistry(s)>>,
                 <<WithCloneConfig(s), WithCloneEntries(s)>>,
                 <<WithCloneEntries(s), WithCloneConfig(s)>>,
                 <<WithCloneRegistry(s), WithCloneConfig(s)>>,
                 <<WithCloneConfig(s), WithCloneRegistry(s)>>,
                 <<WithCloneRegistry(s), WithCloneEntries(s)>>,
                 <<WithCloneEntries(s), WithCloneRegistry(s)>>,
                 <<WithCloneEntries(s), WithName("b")>>,
                 <<WithCloneRegistry(s), WithName("b")>>,
                 <<WithCloneConfig(s), WithUniqueType>>,
                 <<WithCloneRegistry(s), WithCloneEntries(s), WithNamedness(AnonymousType)>>} :
                s \in Regs}

\* The call lastOp records, with the builders it was passed.
CallForm(op, T, v, builders, res) == [builders |-> builders] @@ Call(op, T, v, builders, res)

NewRegistryForms ==
    /\ nops < MaxOps
    /\ Cardinality(Regs) < MaxRegs
    /\ \E chain \in CtorSeqs :
         \E builders \in Forms(chain) :
            \E res \in NewRegistry(World, Cardinality(Regs) + 1, builders) :
               /\ Commit(res)
               /\ lastOp' = CallForm("NewRegistry", "", NoValue, builders, res)
    /\ nops' = nops + 1
    /\ UNCHANGED <<defaultRegistry, held>>
    /\ UNCHANGED <<mu, th>>

SetForms ==
    /\ nops < MaxOps
    /\ \E v \in Values, chain \in CallSeqs :
         \E builders \in Forms(chain) :
            \E res \in Set(World, defaultRegistry, FormType, v, builders) :
               /\ Commit(res)
               /\ lastOp' = CallForm("Set", FormType, v, builders, res)
    /\ nops' = nops + 1
    /\ UNCHANGED <<defaultRegistry, held>>
    /\ UNCHANGED <<mu, th>>

GetForms ==
    /\ nops < MaxOps
    /\ \E chain \in CallSeqs :
         \E builders \in Forms(chain) :
            \E res \in Get(World, defaultRegistry, FormType, builders) :
               /\ Commit(res)
               /\ lastOp' = CallForm("Get", FormType, NoValue, builders, res)
    /\ nops' = nops + 1
    /\ UNCHANGED <<defaultRegistry, held>>
    /\ UNCHANGED <<mu, th>>

GetAllForms ==
    /\ nops < MaxOps
    /\ \E chain \in CallSeqs :
         \E builders \in Forms(chain) :
            \E res \in GetAll(World, defaultRegistry, builders) :
               /\ Commit(res)
               /\ lastOp' = CallForm("GetAll", "", NoValue, builders, res)
               /\ held' = IF res.err = "nil" THEN StubReg ELSE held
    /\ nops' = nops + 1
    /\ UNCHANGED defaultRegistry
    /\ UNCHANGED <<mu, th>>

UnsetForms ==
    /\ nops < MaxOps
    /\ \E chain \in CallSeqs :
         \E builders \in Forms(chain) :
            \E res \in Unset(World, defaultRegistry, FormType, builders) :
               /\ Commit(res)
               /\ lastOp' = CallForm("Unset", FormType, NoValue, builders, res)
    /\ nops' = nops + 1
    /\ UNCHANGED <<defaultRegistry, held>>
    /\ UNCHANGED <<mu, th>>

NextForms ==
    \/ NewRegistryForms
    \/ SetForms
    \/ GetForms
    \/ GetAllForms
    \/ UnsetForms

SpecForms == Init /\ [][NextForms]_vars

\* ------------------------------------------------------------------------
\* A NewRegistry step seen from the state before it.

\* The registry the clone option of the given kind among opts names.
SourceOf(opts, kind) ==
    IF HasOpt(opts, kind)
    THEN opts[CHOOSE i \in 1..Len(opts) : opts[i].kind = kind].reg
    ELSE NilReg

\* The call passes WithCloneRegistry together with another clone option.
CloneRegistryCombined ==
    /\ Step("NewRegistry")
    /\ HasOpt(lastOp'.opts, "WithCloneRegistry")
    /\ (HasOpt(lastOp'.opts, "WithCloneConfig") \/ HasOpt(lastOp'.opts, "WithCloneEntries"))

\* The accessibility or the namedness the options give the destination (the
\* accessibility NewRegistry starts from when none is passed) and the one of
\* registry s are both defined and differ.
SettingsDiffer(opts, s) ==
    LET acc == IF HasOpt(opts, "WithAccessibility")
               THEN LevelOf(opts, "WithAccessibility") ELSE AccessibleInsidePackage
        nmd == LevelOf(opts, "WithNamedness")
    IN \/ (/\ acc # AccessibilityUndefined /\ config[s].accessibility # AccessibilityUndefined
           /\ acc # config[s].accessibility)
       \/ (/\ nmd # NamednessUndefined /\ config[s].namedness # NamednessUndefined
           /\ nmd # config[s].namedness)

\* C22 as stated: a NewRegistry that passes WithCloneRegistry together with
\* WithCloneConfig or WithCloneEntries fails with BadOption.
C22_AsStated ==
    [][CloneRegistryCombined => lastOp'.err = "ErrBadOption"]_vars

\* C22: WithCloneRegistry is not refused for being combined with another
\* clone option.  A NewRegistry that passes WithCloneRegistry(src) together
\* with WithCloneConfig(src) or WithCloneEntries(src), in whatever order,
\* fails with BadOption only when the destination's accessibility or
\* namedness differs from src's; when they do not differ and the other
\* clone option is WithCloneEntries, it succeeds and the new registry has
\* src's Config.
C22_CloneRegistryCombines ==
    [][CloneRegistryCombined
       => \A s \in Regs :
            s = SourceOf(lastOp'.opts, "WithCloneRegistry")
            => /\ lastOp'.err = "ErrBadOption" <=> SettingsDiffer(lastOp'.opts, s)
               /\ (~SettingsDiffer(lastOp'.opts, s) /\ ~HasOpt(lastOp'.opts, "WithCloneConfig"))
                  => (/\ lastOp'.err = "nil"
                      /\ lastOp'.reg \in Regs' \ Regs
                      /\ config'[lastOp'.reg] = config[s])]_vars

\* A NewRegistry with WithCloneRegistry and WithCloneEntries of a registry
\* that holds entries succeeded, and the new registry holds entries.
C22_Witness ==
    /\ lastOp.op = "NewRegistry"
    /\ lastOp.err = "nil"
    /\ HasOpt(lastOp.opts, "WithCloneRegistry")
    /\ HasOpt(lastOp.opts, "WithCloneEntries")
    /\ DOMAIN store[SourceOf(lastOp.opts, "WithCloneRegistry")] # {}
    /\ DOMAIN store[lastOp.reg] # {}

\* The kinds of clone option among opts.
CloneKinds(opts) ==
    {k \in {"WithCloneConfig", "WithCloneEntries", "WithCloneRegistry"} : HasOpt(opts, k)}

\* The call passes two clone options of one source registry s.
ClonesComposed(s) ==
    /\ Step("NewRegistry")
    /\ Cardinality(CloneKinds(lastOp'.opts)) >= 2
    /\ \A k \in CloneKinds(lastOp'.opts) : SourceOf(lastOp'.opts, k) = s

\* C23: clone modifiers of one source compose: a NewRegistry that passes
\* two of WithCloneConfig(src), WithCloneEntries(src), WithCloneRegistry(src),
\* with settings that do not conflict with src's, returns no error and the
\* new registry has src's Config.
C23_CloneModifiersCompose ==
    [][\A s \in Regs :
         (ClonesComposed(s) /\ ~SettingsDiffer(lastOp'.opts, s))
         => (/\ lastOp'.err = "nil"
             /\ lastOp'.reg \in Regs' \ Regs
             /\ config'[lastOp'.reg] = config[s])]_vars

\* ------------------------------------------------------------------------
\* The order in which NewRegistry applies its options.

\* The rearrangements of a sequence.
Perms(s) ==
    {[i \in 1..Len(s) |-> s[f[i]]] :
        f \in {g \in [1..Len(s) -> 1..Len(s)] : \A i, j \in 1..Len(s) : g[i] = g[j] => i = j}}

\* NewRegistry as it would run with the options applied in the order of s,
\* without sorting them.
NewRegistryInOrder(W, id, s) ==
    LET W0 == [store |-> (id :> EmptyMap) @@ W.store,
               inner |-> W.inner,
               config |-> (id :> NewConfig) @@ W.config,
               callOptions |-> (id :> NilCallOpts) @@ W.callOptions]
    IN {IF o.err # "nil"
        THEN Ret(Res(Without(o.w, id), o.err, NoValue, ZeroEff), NilReg)
        ELSE Ret(Res([o.w EXCEPT !.config[id].init.complete = TRUE], "nil", NoValue, ZeroEff), id)
        : o \in applyFrom(ensureCallOpts(W0, id), id, s, 1)}

\* The step leaves what NewRegistry leaves when it applies s in order.
OutcomeInOrder(s) ==
    \E res \in NewRegistryInOrder(World, Cardinality(Regs) + 1, s) :
        /\ lastOp'.err = res.err
        /\ lastOp'.reg = res.reg
        /\ store' = res.w.store
        /\ inner' = res.w.inner
        /\ config' = res.w.config
        /\ callOptions' = res.w.callOptions

\* The place of an option in the clone ordering: ordinary modifiers, then
\* WithCloneConfig, then WithCloneEntries, then WithCloneRegistry.
CloneRank(o) ==
    CASE o.kind = "WithCloneConfig" -> 1
      [] o.kind = "WithCloneEntries" -> 2
      [] o.kind = "WithCloneRegistry" -> 3
      [] OTHER -> 0

InCloneOrder(s) == \A i, j \in 1..Len(s) : i < j => CloneRank(s[i]) <= CloneRank(s[j])

\* C24: in whatever order the options of a NewRegistry call are passed,
\* they are applied with every ordinary modifier before any clone modifier,
\* WithCloneConfig before WithCloneEntries and WithCloneRegistry last: the
\* sequence applied is in that order, and the call leaves what applying the
\* options in such an order leaves.
C24_CloneOrdering ==
    [][Step("NewRegistry")
       => /\ InCloneOrder(SortStable(lastOp'.opts))
          /\ \E s \in Perms(lastOp'.opts) : InCloneOrder(s) /\ OutcomeInOrder(s)]_vars

\* A NewRegistry that was passed a clone option ahead of an ordinary
\* modifier succeeded, and the new registry holds entries.
C24_Witness ==
    /\ lastOp.op = "NewRegistry"
    /\ lastOp.err = "nil"
    /\ ~InCloneOrder(lastOp.opts)
    /\ \E i \in 1..Len(lastOp.opts) : CloneRank(lastOp.opts[i]) = 0
    /\ DOMAIN store[lastOp.reg] # {}

\* The call passes WithCloneConfig and WithCloneEntries.
ConfigAndEntries ==
    /\ Step("NewRegistry")
    /\ HasOpt(lastOp'.opts, "WithCloneConfig")
    /\ HasOpt(lastOp'.opts, "WithCloneEntries")

\* In s, every option of kind first stands before every option of kind second.
Precedes(s, first, second) ==
    \A i, j \in 1..Len(s) : (s[i].kind = first /\ s[j].kind = second) => i < j

\* C25 as stated: when WithCloneConfig and WithCloneEntries are both passed
\* to one NewRegistry call, WithCloneConfig is applied after WithCloneEntries.
C25_AsStated ==
    [][ConfigAndEntries
       => /\ Precedes(SortStable(lastOp'.opts), "WithCloneEntries", "WithCloneConfig")
          /\ \E s \in Perms(lastOp'.opts) :
                /\ Precedes(s, "WithCloneEntries", "WithCloneConfig")
                /\ OutcomeInOrder(s)]_vars

\* C25: when WithCloneConfig and WithCloneEntries are both passed to one
\* NewRegistry call, WithCloneConfig is applied before WithCloneEntries,
\* whichever was passed first.
C25_ConfigBeforeEntries ==
    [][ConfigAndEntries
       => /\ Precedes(SortStable(lastOp'.opts), "WithCloneConfig", "WithCloneEntries")
          /\ \E s \in Perms(lastOp'.opts) :
                /\ Precedes(s, "WithCloneConfig", "WithCloneEntries")
                /\ OutcomeInOrder(s)]_vars

\* A NewRegistry was passed WithCloneEntries ahead of WithCloneConfig, for a
\* source that holds entries.
C25_Witness ==
    /\ lastOp.op = "NewRegistry"
    /\ HasOpt(lastOp.opts, "WithCloneConfig")
    /\ HasOpt(lastOp.opts, "WithCloneEntries")
    /\ ~Precedes(lastOp.opts, "WithCloneConfig", "WithCloneEntries")
    /\ DOMAIN store[SourceOf(lastOp.opts, "WithCloneEntries")] # {}

\* The call passes two modifiers of one configuration kind.
DuplicatedModifier(opts) ==
    \E i, j \in 1..Len(opts) :
        /\ i < j
        /\ opts[i].kind = opts[j].kind
        /\ opts[i].kind \in {"WithUniqueType", "WithUniqueName", "WithAccessibility",
                             "WithNamedness", "WithName"}

\* C26: a NewRegistry call that contains the same configuration modifier
\* twice (WithUniqueType, WithUniqueName, WithAccessibility, WithNamedness,
\* or WithName with any pair of names) fails with BadOption and returns no
\* registry.
C26_DuplicatesRejected ==
    [][(Step("NewRegistry") /\ DuplicatedModifier(lastOp'.opts))
       => (/\ lastOp'.err = "ErrBadOption"
           /\ lastOp'.reg = NilReg
           /\ Regs' = Regs)]_vars

\* ------------------------------------------------------------------------
\* Chained and variadic forms.

\* C27: for every operation and every sequence of options, passing the
\* options as one chained builder and passing them as separate arguments in
\* the same order give the same results: in every state, the outcomes of the
\* two calls (result, error and the state they leave) are the same.
C27_FormsEquivalent ==
    /\ \A chain \in CtorSeqs :
          NewRegistry(World, Cardinality(Regs) + 1, <<chain>>)
            = NewRegistry(World, Cardinality(Regs) + 1, Variadic(chain))
    /\ \A chain \in CallSeqs :
          /\ \A v \in Values :
                Set(World, defaultRegistry, FormType, v, <<chain>>)
                  = Set(World, defaultRegistry, FormType, v, Variadic(chain))
          /\ Get(World, defaultRegistry, FormType, <<chain>>)
               = Get(World, defaultRegistry, FormType, Variadic(chain))
          /\ GetAll(World, defaultRegistry, <<chain>>)
               = GetAll(World, defaultRegistry, Variadic(chain))
          /\ Unset(World, defaultRegistry, FormType, <<chain>>)
               = Unset(World, defaultRegistry, FormType, Variadic(chain))

\* A Set passed two options as two separate arguments, one of them naming
\* another registry than the default one, stored its value there.
C27_Witness ==
    /\ lastOp.op = "Set"
    /\ lastOp.err = "nil"
    /\ Len(lastOp.builders) = 2
    /\ HasOpt(lastOp.opts, "WithRegistry")
    /\ SourceOf(lastOp.opts, "WithRegistry") # defaultRegistry
    /\ DOMAIN store[SourceOf(lastOp.opts, "WithRegistry")] # {}

\* ------------------------------------------------------------------------
\* The order in which applyOptions applies the options.

\* The rearrangements of the positions 1..n.
IndexPerms(n) == {g \in [1..n -> 1..n] : \A i, j \in 1..n : g[i] = g[j] => i = j}

\* f takes the positions of opts into non-increasing priority, positions of
\* equal priority in the order supplied.
StableByPriority(f, opts) ==
    \A i, j \in 1..Len(opts) :
        i < j => \/ Priority(opts[f[i]]) > Priority(opts[f[j]])
                 \/ (Priority(opts[f[i]]) = Priority(opts[f[j]]) /\ f[i] < f[j])

\* C28: applyOptions applies the supplied options (the builders flattened in
\* argument order) in non-increasing priority, options of equal priority in
\* the order supplied, each option once: the sequence it walks is such a
\* rearrangement of the supplied options, and a call in which no option
\* fails leaves what applying that sequence in order leaves.
C28_ApplicationOrder ==
    [][nops' = nops + 1
       => \E f \in IndexPerms(Len(lastOp'.opts)) :
             LET applied == [i \in 1..Len(lastOp'.opts) |-> lastOp'.opts[f[i]]]
             IN /\ StableByPriority(f, lastOp'.opts)
                /\ SortStable(lastOp'.opts) = applied
                /\ Step("NewRegistry") => OutcomeInOrder(applied)]_vars

\* A call passed three options, of which the last has the highest priority
\* and the first two the same one, succeeded.
C28_Witness ==
    /\ lastOp.err = "nil"
    /\ Len(lastOp.opts) = 3
    /\ Priority(lastOp.opts[1]) = Priority(lastOp.opts[2])
    /\ Priority(lastOp.opts[2]) < Priority(lastOp.opts[3])

\* ------------------------------------------------------------------------
\* The operations run by concurrent threads, with the mutex of each
\* registry.  A call is cut where it locks a mutex: what it does between
\* two lock operations is one step.  th[t].r is the registry the call works
\* on (the one it is about to lock, or holds), th[t].from the one it
\* started on, th[t].callOpts the call options it carries over a redirect,
\* th[t].arg the argument of SetDefaultRegistry.

\* The mutex of a registry left locked by a call that has exited.
Exited == -1

\* The value thread t sets: each thread sets a value of its own.
LockValue(t) == t

Lock(M, r, t) == [M EXCEPT ![r] = t]

Unlock(M, r) == [M EXCEPT ![r] = NoThread]

\* The redirect as it would be if it kept the mutex of the default registry.
unlockBeforeRedirectKept(M, r) == M

\* r.mu.Unlock() of the redirect, before r = withReg; r.mu.Lock().
unlockBeforeRedirect(M, r) == Unlock(M, r)

\* The options the calls are made with; a nil Option is passed alone.
LockChains ==
    {<<>>, <<WithUniqueName>>, <<WithCloneConfig(defaultRegistry)>>}
    \cup {<<WithRegistry(r)>> : r \in Regs}

LockCtorChains ==
    {<<>>, <<WithRegistry(defaultRegistry)>>, <<WithUniqueName>>, <<WithUniqueType>>}
    \cup UNION {{<<WithCloneEntries(s)>>, <<WithName("b"), WithCloneRegistry(s)>>} : s \in Regs}

InCall(t, pc, op, chain, nilOption, r, callOpts, arg) ==
    [th EXCEPT ![t] = [pc |-> pc, op |-> op, chain |-> chain, nilOption |-> nilOption,
                       r |-> r, callOpts |-> callOpts, arg |-> arg, from |-> r]]

\* The position of a call as it would be if the call read defaultRegistry
\* again at every step.
AtDefault(t, pc, r) == [th EXCEPT ![t].pc = pc, ![t].r = defaultRegistry]

At(t, pc, r) == [th EXCEPT ![t].pc = pc, ![t].r = r]

Return(t) == [th EXCEPT ![t] = IdleThread]

\* The call of thread t as lastOp records it when it exits.
Exit(t, reg, res) ==
    [op |-> th[t].op, typ |-> IF th[t].op \in {"Set", "Get", "Unset"} THEN FormType ELSE "",
     val |-> IF th[t].op = "Set" THEN LockValue(t) ELSE NoValue,
     opts |-> th[t].chain, reg |-> reg, err |-> res.err, out |-> res.out, eff |-> res.eff]

\* A thread calls Set, Get, GetAll or Unset: r := defaultRegistry.
Begin(t) ==
    /\ th[t].pc = "idle"
    /\ nops < MaxCalls
    /\ \E op \in {"Set", "Get", "GetAll", "Unset"}, chain \in LockChains, nilOption \in BOOLEAN :
         /\ nilOption => chain = <<>>
         /\ th' = InCall(t, "lock", op, chain, nilOption, defaultRegistry, NilCallOpts, NilReg)
    /\ nops' = nops + 1
    /\ UNCHANGED <<store, inner, config, callOptions, defaultRegistry, held, lastOp, mu>>

\* r.mu.Lock() on the default registry.
LockDefault(t) ==
    /\ th[t].pc = "lock"
    /\ mu[th[t].r] = NoThread
    /\ mu' = Lock(mu, th[t].r, t)
    /\ th' = At(t, "apply", th[t].r)
    /\ UNCHANGED <<store, inner, config, callOptions, defaultRegistry, held, lastOp, nops>>

\* applyOptions(r, unwrapOptions(opts)...) and what follows it up to the
\* body.  unwrapOptions panics on a nil Option, with the mutex locked and
\* nothing deferred.  An error of applyOptions, and for Get, GetAll and
\* Unset the call option uniqueName, end the call with the mutex unlocked.
\* A redirect drops the call options, unlocks and goes on to lock withReg.
Apply(t) ==
    LET r == th[t].r
        op == th[t].op
    IN /\ th[t].pc = "apply"
       /\ IF th[t].nilOption
          THEN /\ mu' = Lock(mu, r, Exited)
               /\ th' = Return(t)
               /\ lastOp' = Exit(t, NilReg, Res(World, "panic", NoValue, ZeroEff))
               /\ UNCHANGED <<store, inner, config, callOptions>>
          ELSE \E o \in applyOptions(World, r, unwrapOptions(Builders(th[t].chain))) :
                 IF o.err # "nil"
                 THEN /\ Commit([w |-> IF op = "Set" THEN o.w ELSE cleanup(o.w, r)])
                      /\ mu' = Unlock(mu, r)
                      /\ th' = Return(t)
                      /\ lastOp' = Exit(t, NilReg, Res(o.w, o.err, NoValue, ZeroEff))
                 ELSE IF op # "Set" /\ o.w.callOptions[r].uniqueName
                 THEN /\ Commit([w |-> cleanup(o.w, r)])
                      /\ mu' = Unlock(mu, r)
                      /\ th' = Return(t)
                      /\ lastOp' = Exit(t, NilReg, Res(o.w, "ErrNotSupported", NoValue, ZeroEff))
                 ELSE IF o.w.callOptions[r].withRegistry # NilReg
                 THEN /\ Commit([w |-> dropCallOpts(o.w, r)])
                      /\ mu' = unlockBeforeRedirect(mu, r)
                      /\ th' = [th EXCEPT ![t].pc = "relock",
                                          ![t].r = o.w.callOptions[r].withRegistry,
                                          ![t].callOpts = withoutRegistry(o.w.callOptions[r])]
                      /\ UNCHANGED lastOp
                 ELSE /\ Commit([w |-> o.w])
                      /\ th' = At(t, "body", r)
                      /\ UNCHANGED <<mu, lastOp>>
       /\ UNCHANGED <<defaultRegistry, held, nops>>

\* LockTarget as it would be if r.mu.Lock() did not wait for the mutex.
LockTargetNoWait(t) ==
    /\ th[t].pc = "relock"
    /\ mu' = Lock(mu, th[t].r, t)
    /\ callOptions' = [callOptions EXCEPT ![th[t].r] = th[t].callOpts]
    /\ th' = At(t, "body", th[t].r)
    /\ UNCHANGED <<store, inner, config, defaultRegistry, held, lastOp, nops>>

\* r = withReg; r.mu.Lock(); r.callOptions = callOpts.
LockTarget(t) ==
    /\ th[t].pc = "relock"
    /\ mu[th[t].r] = NoThread
    /\ mu' = Lock(mu, th[t].r, t)
    /\ callOptions' = [callOptions EXCEPT ![th[t].r] = th[t].callOpts]
    /\ th' = At(t, "body", th[t].r)
    /\ UNCHANGED <<store, inner, config, defaultRegistry, held, lastOp, nops>>

\* The body of the call with its deferred r.mu.Unlock() (Set) or
\* r.cleanup() (Get, GetAll, Unset).
Body(t) ==
    LET r == th[t].r
        op == th[t].op
        results ==
            CASE op = "Set" -> {setType(World, r, FormType, LockValue(t))}
              [] op = "Get" ->
                    LET g == getType(World, r, FormType) IN {[g EXCEPT !.w = cleanup(g.w, r)]}
              [] op = "Unset" ->
                    LET u == unsetType(World, r, FormType) IN {[u EXCEPT !.w = cleanup(u.w, r)]}
              [] op = "GetAll" ->
                    {Res(cleanup(w, r), "nil", NoValue, ZeroEff) : w \in getAll(World, r)}
    IN /\ th[t].pc = "body"
       /\ \E res \in results :
            /\ Commit(Ret(res, r))
            /\ lastOp' = Exit(t, r, res)
            /\ held' = IF op = "GetAll" /\ res.err = "nil" THEN StubReg ELSE held
       /\ mu' = Unlock(mu, r)
       /\ th' = Return(t)
       /\ UNCHANGED <<defaultRegistry, nops>>

\* The clone option of a NewRegistry call comes to its src.mu.Lock(): the
\* options applied before it succeed and the clone option passes its tests
\* of init.complete and checkBadOpt.  The chains have one clone option, the
\* one of lowest priority.
ReachesSrcLock(W, chain) ==
    /\ chain # <<>>
    /\ HasCloneOpt(chain)
    /\ LET id == Cardinality(DOMAIN W.config) + 1
           s == SortStable(chain)
           src == s[Len(s)].reg
           W0 == [store |-> (id :> EmptyMap) @@ W.store,
                  inner |-> W.inner,
                  config |-> (id :> NewConfig) @@ W.config,
                  callOptions |-> (id :> NilCallOpts) @@ W.callOptions]
       IN \E o \in applyFrom(ensureCallOpts(W0, id), id, SubSeq(s, 1, Len(s) - 1), 1) :
             /\ o.err = "nil"
             /\ ~o.w.config[id].init.complete
             /\ checkBadOpt(o.w, src, id) = "nil"

\* A thread calls NewRegistry.  The call locks no mutex of the registry it
\* builds; it goes on to lock the source of its clone option, or ends.
BeginNew(t) ==
    /\ th[t].pc = "idle"
    /\ nops < MaxCalls
    /\ Cardinality(Regs) + Cardinality({u \in Threads : th[u].op = "NewRegistry"}) < MaxRegs
    /\ \E chain \in LockCtorChains :
         IF ReachesSrcLock(World, chain)
         THEN /\ th' = InCall(t, "srclock", "NewRegistry", chain, FALSE,
                              SortStable(chain)[Len(chain)].reg, NilCallOpts, NilReg)
              /\ UNCHANGED <<store, inner, config, callOptions, lastOp>>
         ELSE \E res \in NewRegistry(World, Cardinality(Regs) + 1, Builders(chain)) :
                 /\ Commit(res)
                 /\ lastOp' = [op |-> "NewRegistry", typ |-> "", val |-> NoValue, opts |-> chain,
                               reg |-> res.reg, err |-> res.err, out |-> res.out, eff |-> res.eff]
                 /\ UNCHANGED th
    /\ nops' = nops + 1
    /\ UNCHANGED <<defaultRegistry, held, mu>>

\* src.mu.Lock() of the clone option.
LockSource(t) ==
    /\ th[t].pc = "srclock"
    /\ mu[th[t].r] = NoThread
    /\ mu' = Lock(mu, th[t].r, t)
    /\ th' = At(t, "clone", th[t].r)
    /\ UNCHANGED <<store, inner, config, callOptions, defaultRegistry, held, lastOp, nops>>

\* The clone with its deferred src.mu.Unlock(), and the end of NewRegistry.
Clone(t) ==
    /\ th[t].pc = "clone"
    /\ \E res \in NewRegistry(World, Cardinality(Regs) + 1, Builders(th[t].chain)) :
         /\ Commit(res)
         /\ lastOp' = Exit(t, res.reg, res)
    /\ mu' = Unlock(mu, th[t].r)
    /\ th' = Return(t)
    /\ UNCHANGED <<defaultRegistry, held, nops>>

\* A thread calls SetDefaultRegistry(r): old := defaultRegistry.
BeginSetDefault(t) ==
    /\ th[t].pc = "idle"
    /\ nops < MaxCalls
    /\ \E r \in Regs \ {defaultRegistry} :
         th' = InCall(t, "oldlock", "SetDefaultRegistry", <<>>, FALSE, defaultRegistry,
                      NilCallOpts, r)
    /\ nops' = nops + 1
    /\ UNCHANGED <<store, inner, config, callOptions, defaultRegistry, held, lastOp, mu>>

\* old.mu.Lock().
LockOld(t) ==
    /\ th[t].pc = "oldlock"
    /\ mu[th[t].r] = NoThread
    /\ mu' = Lock(mu, th[t].r, t)
    /\ th' = At(t, "assign", th[t].r)
    /\ UNCHANGED <<store, inner, config, callOptions, defaultRegistry, held, lastOp, nops>>

\* defaultRegistry = r, and the deferred old.mu.Unlock().
AssignDefault(t) ==
    /\ th[t].pc = "assign"
    /\ defaultRegistry' = th[t].arg
    /\ lastOp' = Exit(t, th[t].arg, Res(World, "nil", NoValue, ZeroEff))
    /\ mu' = Unlock(mu, th[t].r)
    /\ th' = Return(t)
    /\ UNCHANGED <<store, inner, config, callOptions, held, nops>>

NextLocks ==
    \/ \E t \in Threads : Begin(t)
    \/ \E t \in Threads : LockDefault(t)
    \/ \E t \in Threads : Apply(t)
    \/ \E t \in Threads : LockTarget(t)
    \/ \E t \in Threads : Body(t)
    \/ \E t \in Threads : BeginNew(t)
    \/ \E t \in Threads : LockSource(t)
    \/ \E t \in Threads : Clone(t)
    \/ \E t \in Threads : BeginSetDefault(t)
    \/ \E t \in Threads : LockOld(t)
    \/ \E t \in Threads : AssignDefault(t)

SpecLocks == Init /\ [][NextLocks]_vars

\* ------------------------------------------------------------------------
\* The mutexes under concurrent calls.

\* The mutexes the call of thread t holds.
HeldBy(t) == {r \in DOMAIN mu : mu[r] = t}

\* The call of thread t is at a Lock(), waiting for the mutex to be free.
Waiting(t) == th[t].pc \in {"lock", "relock", "srclock", "oldlock"}

\* C29: no call of NewRegistry, Set, Get, GetAll or Unset holds the mutexes
\* of two registries at the same time; a call that goes on to lock a mutex,
\* the redirected call at its target among them, holds none, so the default
\* registry's mutex is released before the target's is acquired; and no
\* calls wait for each other: whenever a call waits for a mutex that a call
\* holds, the holder is running and not itself waiting.
C29_LockHandOff ==
    \A t \in Threads :
        /\ Cardinality(HeldBy(t)) <= 1
        /\ Waiting(t) => HeldBy(t) = {}
        /\ (Waiting(t) /\ mu[th[t].r] \in Threads)
           => (/\ ~Waiting(mu[th[t].r])
               /\ th[mu[th[t].r]].pc \in {"apply", "body", "clone", "assign"}
               /\ th[mu[th[t].r]].r = th[t].r)

\* Two redirects cross: a call that started on one registry has released
\* it and waits for the mutex of its target, which a call that started on
\* that registry holds and is about to leave for the first registry.
C29_Witness ==
    \E t, u \in Threads :
        /\ th[t].pc = "relock"
        /\ th[u].pc = "apply"
        /\ th[t].r = th[u].r
        /\ mu[th[t].r] = u
        /\ th[t].from # th[t].r
        /\ th[u].chain = <<WithRegistry(th[t].from)>>

\* C30: when a Set, Get, GetAll or Unset call exits, by success, by an
\* error of option application or validation, or by a panic, no mutex it
\* locked stays locked: every locked mutex is held by a call that is still
\* running on that registry.
C30_LocksReleased ==
    \A r \in DOMAIN mu :
        mu[r] # NoThread
        => (/\ mu[r] \in Threads
            /\ th[mu[r]].pc \in {"apply", "body", "clone", "assign"}
            /\ th[mu[r]].r = r)

\* ------------------------------------------------------------------------
\* SetDefaultRegistry under concurrent calls.

\* Thread t is in a Set, Get, GetAll or Unset without a redirect.
PlainCall(t) ==
    /\ th[t].op \in {"Set", "Get", "GetAll", "Unset"}
    /\ ~HasOpt(th[t].chain, "WithRegistry")

\* A call without a redirect works on the registry it read at entry, and
\* holds no other mutex.
RunsOnOneRegistry ==
    \A t \in Threads : PlainCall(t) => (th[t].r = th[t].from /\ HeldBy(t) \subseteq {th[t].from})

\* C31: a Set, Get, GetAll or Unset without a redirect reads the default
\* registry once, at entry, and runs on that registry to its end, whatever
\* SetDefaultRegistry does meanwhile; the default registry changes only to
\* the argument of a SetDefaultRegistry call that is returning; and as long
\* as the last call to have returned is SetDefaultRegistry(r), the default
\* registry is r, so a call started then runs on r.
C31_DefaultSwap ==
    [][/\ RunsOnOneRegistry'
       /\ \A t \in Threads :
            /\ (th[t].pc = "idle" /\ th'[t].pc = "lock") => th'[t].from = defaultRegistry
            /\ (PlainCall(t) /\ th'[t].pc = "idle" /\ lastOp'.reg # NilReg)
               => lastOp'.reg = th[t].from
       /\ defaultRegistry' # defaultRegistry
          => \E t \in Threads : th[t].pc = "assign" /\ th'[t].pc = "idle"
                                /\ defaultRegistry' = th[t].arg
       /\ lastOp'.op = "SetDefaultRegistry" => defaultRegistry' = lastOp'.reg]_vars

\* A call without a redirect runs its body on the registry it read at
\* entry, after a SetDefaultRegistry that ran meanwhile has returned and
\* made another registry the default one.
C31_Witness ==
    \E t \in Threads :
        /\ PlainCall(t)
        /\ th[t].pc = "body"
        /\ th[t].from # defaultRegistry
        /\ lastOp.op = "SetDefaultRegistry"

\* ------------------------------------------------------------------------
\* The default name.

\* Registry r holds an entry under name n.
StoresUnder(r, n) == \E T \in DOMAIN store[r] : n \in DOMAIN inner[store[r][T]]

\* The name a NewRegistry call passes with WithName ("" when it passes none).
CtorName(opts) ==
    IF HasOpt(opts, "WithName")
    THEN opts[CHOOSE i \in 1..Len(opts) : opts[i].kind = "WithName"].name
    ELSE ""

RECURSIVE AfterOptions(_, _, _, _)
AfterOptions(W, r, s, k) ==
    IF k = 0 THEN {W}
    ELSE UNION {{o.w : o \in {x \in ApplyOption(w, r, s[k]) : x.err = "nil"}} :
                  w \in AfterOptions(W, r, s, k - 1)}

\* The errors of the first option of s that fails on r.
FirstErrors(W, r, s) ==
    UNION {UNION {{x.err : x \in {y \in ApplyOption(w, r, s[k]) : y.err # "nil"}} :
                    w \in AfterOptions(W, r, s, k - 1)} :
             k \in 1..Len(s)}

\* The world NewRegistry applies its options in, for the new registry id.
CtorWorld(W, id) ==
    [store |-> (id :> EmptyMap) @@ W.store,
     inner |-> W.inner,
     config |-> (id :> NewConfig) @@ W.config,
     callOptions |-> (id :> ZeroCallOpts) @@ W.callOptions]

\* C33: when an option of a call fails, the call returns the error of the
\* first option that fails in priority order, its body does not run (no
\* store and no config changes and the call did not reach a registry), and
\* the call options written by the options applied before the failing one
\* are discarded: the default registry is left with none, and every other
\* registry with the ones it had.  A NewRegistry whose option fails returns
\* that error and no registry.
C33_ShortCircuit ==
    [][/\ (Step("Set") \/ Step("Get") \/ Step("GetAll") \/ Step("Unset"))
          => LET E == FirstErrors(ensureCallOpts(World, defaultRegistry), defaultRegistry,
                                  SortStable(lastOp'.opts))
             IN E # {}
                => (/\ lastOp'.err \in E
                    /\ lastOp'.reg = NilReg
                    /\ store' = store /\ inner' = inner /\ config' = config
                    /\ callOptions' = [callOptions EXCEPT ![defaultRegistry] = NilCallOpts])
       /\ Step("NewRegistry")
          => LET id == Cardinality(Regs) + 1
                 E == FirstErrors(CtorWorld(World, id), id, SortStable(lastOp'.opts))
             IN E # {}
                => (/\ lastOp'.err \in E
                    /\ lastOp'.reg = NilReg
                    /\ store' = store /\ inner' = inner /\ config' = config
                    /\ callOptions' = callOptions)]_vars

\* A Set that passed a failing clone option ahead of WithName and of a
\* WithRegistry naming another registry returned the clone option's error,
\* and the default registry is left without call options.
C33_Witness ==
    /\ lastOp.op = "Set"
    /\ lastOp.err = "ErrNotSupported"
    /\ Len(lastOp.opts) = 3
    /\ lastOp.opts[1].kind = "WithCloneConfig"
    /\ HasOpt(lastOp.opts, "WithName")
    /\ HasOpt(lastOp.opts, "WithRegistry")
    /\ SourceOf(lastOp.opts, "WithRegistry") # defaultRegistry
    /\ callOptions[defaultRegistry] = NilCallOpts

\* ------------------------------------------------------------------------
\* The filters of GetAll.

\* The entries of registry r whose type satisfies Keep.
Restrict(r, Keep(_)) ==
    [T \in {U \in DOMAIN store[r] : Keep(U)} |-> inner[store[r][T]]]

\* C34: a GetAll whose only option is WithNamedness(x), on a default
\* registry with no call options left on it, returns exactly the entries
\* whose registered type is classified with namedness x; one whose only
\* option is WithAccessibility(a) returns exactly the entries whose
\* registered type is classified with accessibility a.
C34_GetAllTypeFilters ==
    [][(/\ Step("GetAll")
        /\ lastOp'.err = "nil"
        /\ Len(lastOp'.opts) = 1
        /\ CallStateEmpty(defaultRegistry))
       => LET x == lastOp'.opts[1].level
              ByNamedness(T) == Info(T)[1] = x
              ByAccessibility(T) == Info(T)[2] = x
          IN /\ lastOp'.opts[1].kind = "WithNamedness"
                => Content(World, StubReg)' = Restrict(defaultRegistry, ByNamedness)
             /\ lastOp'.opts[1].kind = "WithAccessibility"
                => Content(World, StubReg)' = Restrict(defaultRegistry, ByAccessibility)]_vars

\* C35: a GetAll whose only option is WithName(n), n non-empty, on a default
\* registry with no call options left on it, returns exactly the entries
\* stored under n: a type key for each type that has an entry named n and
\* for no other type, each mapped to that one entry.
C35_GetAllByName ==
    [][(/\ Step("GetAll")
        /\ lastOp'.err = "nil"
        /\ Len(lastOp'.opts) = 1
        /\ lastOp'.opts[1].kind = "WithName"
        /\ lastOp'.opts[1].name # ""
        /\ CallStateEmpty(defaultRegistry))
       => LET n == lastOp'.opts[1].name
              r == defaultRegistry
          IN Content(World, StubReg)'
               = [T \in {U \in DOMAIN store[r] : n \in DOMAIN inner[store[r][U]]} |->
                    [m \in {n} |-> inner[store[r][T]][n]]]]_vars

\* ---------------------------------------------------------------------
\* access.Info as a function of the type and of the package of the caller.

\* The types Info is called with.
AccessTypes ==
    {"ExportedNamedTester", "unexportedType", "interface{ M() }", "int",
     "other.hidden", "other.Public", "*unexportedType", "*ExportedNamedTester",
     "**ExportedNamedTester", "[]other.hidden", "[4]int", "chan other.Public",
     "map[int]unexportedType", "map[other.hidden]unexportedType",
     "func(int) other.Public", "func(unexportedType)", "interface{ M(unexportedType) }",
     "struct{ a int; b other.hidden }", "struct{ a unexportedType; b []other.hidden }",
     "Node", "*Node", "node", "*node", "struct{ n *node; m map[int]*Node }",
     "map[int]*Node", "other.hiddenPtr", "PublicPtr", "[]other.hiddenPtr",
     "other.P", "[]other.P", "struct{ h other.hidden; p other.P }"}

\* The packages the function calling Info is declared in.
CallerPkgs == {RegPkg, OtherPkg, MainPkg}

\* Info(v) called from a function of package callerPkg: getNamedness, then
\* getAccessability; err tells whether the call returns.
InfoFrom(D, T, callerPkg) ==
    IF getNamedness(D, T) = NamednessUndefined \/ accessibilityHangs(D, T, callerPkg)
    THEN [op |-> "Info", typ |-> T, pkg |-> callerPkg, err |-> "no return",
          namedness |-> NamednessUndefined, accessibility |-> AccessibilityUndefined]
    ELSE [op |-> "Info", typ |-> T, pkg |-> callerPkg, err |-> "nil",
          namedness |-> getNamedness(D, T), accessibility |-> accessibilityFrom(D, T, callerPkg)]

InfoOp ==
    /\ nops < MaxOps
    /\ \E T \in AccessTypes, callerPkg \in CallerPkgs : lastOp' = InfoFrom(TypeDescs, T, callerPkg)
    /\ nops' = nops + 1
    /\ UNCHANGED <<store, inner, config, callOptions, defaultRegistry, held, mu, th>>

NextAccess == InfoOp

SpecAccess == Init /\ [][NextAccess]_vars

\* The named types reached through the anonymous structure of T: T itself
\* when it is named, otherwise those of the types it is built from.
RECURSIVE NamedReached(_)
NamedReached(T) ==
    LET d == TypeDesc(TypeDescs, T) IN
    IF d.name # "" THEN {T}
    ELSE UNION {NamedReached(d.elems[i]) : i \in 1..Len(d.elems)}

ExportedOrPredeclared(N) ==
    TypeDesc(TypeDescs, N).pkgPath = "" \/ TypeDesc(TypeDescs, N).upper

Classified(T, c) ==
    IF \A N \in NamedReached(T) : ExportedOrPredeclared(N) THEN AccessibleEverywhere
    ELSE IF \A N \in NamedReached(T) : ~ExportedOrPredeclared(N) => TypeDesc(TypeDescs, N).pkgPath = c
         THEN AccessibleInsidePackage
    ELSE NotAccessible

\* C36: for every type and every caller package the classification returns,
\* and it answers AccessibleEverywhere exactly when every named type reached
\* through the anonymous structure of the type is exported or predeclared,
\* otherwise AccessibleInsidePackage exactly when every unexported one of
\* them is declared in the caller package, otherwise NotAccessible.
C36_AccessibilityClassification ==
    [][lastOp'.op = "Info" =>
          /\ lastOp'.err = "nil"
          /\ lastOp'.accessibility = Classified(lastOp'.typ, lastOp'.pkg)]_vars

\* C37: while NewRegistry applies its options the new registry is not marked
\* construction-complete: before each option, in the order of application,
\* init.complete of the registry under construction is false; a NewRegistry
\* that returns a registry returns it marked complete; and no call turns the
\* mark of a registry from true to false.
C37_CompleteOnlyAtEnd ==
    [][/\ Step("NewRegistry")
          => LET id == Cardinality(Regs) + 1
                 s == SortStable(lastOp'.opts)
             IN /\ \A k \in 0..(Len(s) - 1) :
                      \A w \in AfterOptions(CtorWorld(World, id), id, s, k) :
                         ~w.config[id].init.complete
                /\ lastOp'.err = "nil" => config'[lastOp'.reg].init.complete
       /\ \A r \in Regs : config[r].init.complete => config'[r].init.complete]_vars

\* C38: the Config of a constructed registry is frozen: no call, whatever its
\* options, whether it succeeds or fails, whether it reaches the registry as
\* the default, through WithRegistry or as the source of a clone option,
\* changes a field of the Config of a registry that exists before the call.
C38_ConfigFrozen ==
    [][\A r \in Regs : config'[r] = config[r]]_vars

\* A Set with WithUniqueName has been redirected to a registry constructed
\* without it and has stored there; the registry still has no unique names.
C38_Witness ==
    /\ lastOp.op = "Set"
    /\ lastOp.err = "nil"
    /\ lastOp.reg # defaultRegistry
    /\ lastOp.opts = <<WithRegistry(lastOp.reg), WithUniqueName>>
    /\ ~config[lastOp.reg].uniqueNames
    /\ config[lastOp.reg].accessibility = AccessibleEverywhere

\* C39: a registry made by NewRegistry with a clone option and the source of
\* the clone are independent: a Set or an Unset changes the Store of the one
\* registry it acts on, and leaves the Store and the Config of every other
\* registry, the sources and the clones of that registry among them, as they
\* were.
C39_CloneIndependence ==
    [][(Step("Set") \/ Step("Unset"))
       => \A r \in Regs :
             r # lastOp'.reg
             => /\ Content(World, r)' = Content(World, r)
                /\ config'[r] = config[r]]_vars

\* An entry was set in the default registry, a second registry was made as
\* a clone of it, and the entry was unset from the default registry: the
\* clone still has it.
C39_Witness ==
    /\ nops = 3
    /\ lastOp.op = "Unset"
    /\ lastOp.err = "nil"
    /\ lastOp.reg = 1
    /\ Content(World, 1) = EmptyMap
    /\ 2 \in Regs
    /\ Content(World, 2) # EmptyMap

\* ------------------------------------------------------------------------
\* Uniqueness under concurrent Set calls.

\* Thread t runs the body of its Set in this step.
SetBody(t) == th[t].pc = "body" /\ th[t].op = "Set" /\ th'[t].pc = "idle"

\* The name a Set on r resolves to, and the entries r has of the type.
ResolvedName(r) ==
    IF callOptions[r].present /\ callOptions[r].name # "" THEN callOptions[r].name
    ELSE config[r].defaultName

EntriesOf(r, T) == IF T \in DOMAIN RegContent(r) THEN RegContent(r)[T] ELSE EmptyMap

CallUniqueType(r) == callOptions[r].present /\ callOptions[r].uniqueType

\* C40: the Set calls of two threads on one registry do not run their bodies
\* at the same time, and under every interleaving: on a registry constructed
\* with WithUniqueName a Set whose resolved name has no entry of the type
\* succeeds and stores its value, and a Set whose resolved name has one (the
\* value of the call that came first) fails with ErrNotUniqueName and leaves
\* the Store as it is; on a registry constructed with WithUniqueType a Set
\* succeeds and stores its value when the type has no entry, and fails with
\* ErrNotUniqueType and leaves the Store as it is when it has one.  Of two
\* concurrent Sets of one type and name exactly the first succeeds, and the
\* Store holds its value.
C40_ConcurrentUniqueness ==
    [][/\ \A t, u \in Threads :
            (t # u /\ th[t].pc = "body" /\ th[u].pc = "body") => th[t].r # th[u].r
       /\ \A t \in Threads : \A r \in Regs :
            (SetBody(t) /\ th[t].r = r)
            => LET n == ResolvedName(r)
                   had == EntriesOf(r, FormType)
               IN /\ (config[r].uniqueNames /\ ~config[r].uniqueTypes /\ ~CallUniqueType(r))
                     => IF n \in DOMAIN had
                        THEN /\ lastOp'.err = "ErrNotUniqueName"
                             /\ RegContent(r)' = RegContent(r)
                        ELSE /\ lastOp'.err = "nil"
                             /\ EntriesOf(r, FormType)' = (n :> Box(FormType, t)) @@ had
                  /\ config[r].uniqueTypes
                     => IF DOMAIN had # {}
                        THEN /\ lastOp'.err = "ErrNotUniqueType"
                             /\ RegContent(r)' = RegContent(r)
                        ELSE /\ lastOp'.err = "nil"
                             /\ EntriesOf(r, FormType)' = (n :> Box(FormType, t)) @@ had]_vars

\* Two threads are in a Set on one registry constructed with WithUniqueName
\* that has no entry yet: one holds its mutex and is about to run the body,
\* the other waits for the mutex.
C40_Witness ==
    \E t, u \in Threads :
        /\ t # u
        /\ th[t].op = "Set" /\ th[u].op = "Set"
        /\ th[t].pc = "body" /\ th[u].pc = "relock"
        /\ th[t].r = th[u].r
        /\ mu[th[t].r] = t
        /\ config[th[t].r].uniqueNames
        /\ EntriesOf(th[t].r, FormType) = EmptyMap

====
